---- MODULE Spec2Model ----
(***************************************************************************)
(* Model of the two file-backed stores of the photo application:          *)
(* AuthStore (src/auth_store.py) and LocalStore (src/local_store.py).     *)
(* The state is the content of the application data directory plus the    *)
(* wall clock; every action is one public operation of a store, run to    *)
(* completion (the stores are synchronous and single-threaded).           *)
(***************************************************************************)
EXTENDS Integers, Sequences, FiniteSets, TLC

(***************************************************************************)
(* Bounds of the model.                                                    *)
(***************************************************************************)
\* the clock stops advancing when it reaches MaxTime
MaxTime == 300
\* wrong-PIN logins are explored while failed_attempts is below MaxFails
MaxFails == 6
\* the same, in the specification of two accounts
MaxSessionFails == 1
\* add_upload is explored while the uploads directory holds fewer than
\* MaxSeq files
MaxSeq == 2
\* temporary files created on one path
MaxTmp == 3
\* files in one upload directory
MaxUploads == 3
\* the largest sequence number but one that add_upload puts in a name in
\* the specification of the listing order
MaxNumbered == 9

(***************************************************************************)
(* Program constants.                                                      *)
(***************************************************************************)
MobileLen == 10
PinMinLen == 4
PinMaxLen == 6
ThrottleLimit == 5
ThrottleWindow == 300

(***************************************************************************)
(* Text.  A string is a sequence of characters; a character is a          *)
(* one-symbol string.  "u0663" stands for ARABIC-INDIC DIGIT THREE, a     *)
(* character of Unicode category Nd that is not an ASCII digit.           *)
(***************************************************************************)
AsciiDigits == {"0", "1", "2", "3", "4", "5", "6", "7", "8", "9"}
UnicodeDigits == AsciiDigits \cup {"u0663"}

\* re.sub(r"\D", "", s): drop every character that \d does not match
IsDigit(c) == c \in UnicodeDigits
StripNonDigits(s) == SelectSeq(s, IsDigit)

AllAsciiDigits(s) == \A i \in 1..Len(s) : s[i] \in AsciiDigits

\* MOBILE_RE = ^[0-9]{10}$ used with fullmatch
MOBILE_RE(s) == Len(s) = MobileLen /\ AllAsciiDigits(s)

\* _normalize_mobile: the normalized mobile, NoMobile when it raises ValueError
NoMobile == <<>>
NormalizeMobile(mobile) ==
    LET x == StripNonDigits(mobile)
    IN  IF MOBILE_RE(x) THEN x ELSE NoMobile
MobileOk(mobile) == NormalizeMobile(mobile) # NoMobile

\* re.fullmatch(r"[0-9]{4,6}", pin)
PinOk(pin) == Len(pin) >= PinMinLen /\ Len(pin) <= PinMaxLen /\ AllAsciiDigits(pin)

(***************************************************************************)
(* Inputs.                                                                 *)
(***************************************************************************)
MobA == <<"9", "8", "7", "6", "5", "4", "3", "2", "1", "0">>
MobB == <<"9", "1", "2", "3", "4", "5", "6", "7", "8", "0">>
MobAFormatted == <<"9", "8", "7", "6", "5", "-", "4", "3", "2", "1", "0">>
MobShort == <<"1", "2", "3", "4", "5">>
\* "+91 98765-43210"
MobPlus91 == <<"+", "9", "1", " ", "9", "8", "7", "6", "5", "-", "4", "3", "2", "1", "0">>
Users == {MobA, MobB}
MobileInputs == {MobA, MobB, MobAFormatted, MobShort}
\* the inputs that address the account MobA, and a malformed one
AccountInputs == {MobA, MobShort}
SessionInputs == {MobA, MobB, MobShort}

Pin1 == <<"1", "2", "3", "4">>
Pin2 == <<"6", "5", "4", "3", "2", "1">>
PinShort == <<"1", "2">>
PinInputs == {Pin1, Pin2, PinShort}

\* profile records a caller saves: one with an extension key and no fixed
\* key but name, one with every fixed key
ProfileInputs ==
    {[name |-> "Asha", nickname |-> "ash"],
     [mobile |-> MobA, name |-> "Asha", email |-> "a@x.in", state |-> "KA",
      district |-> "Udupi", address |-> "12 Car St"]}

\* the same, with the empty record and a record that names another mobile
MoreProfileInputs ==
    ProfileInputs \cup {<<>>, [mobile |-> MobB, name |-> "Bina", plan |-> "x"]}

\* source paths handed to add_upload: whether the path is a file, and its
\* extension as os.path.splitext returns it
SourceInputs ==
    {[isfile |-> TRUE, ext |-> <<".", "J", "P", "G">>],
     [isfile |-> TRUE, ext |-> <<".", "m", "p", "4">>],
     [isfile |-> FALSE, ext |-> <<".", "j", "p", "g">>]}
\* the sources with a .jpg extension
JpgSourceInputs == {src \in SourceInputs : src.ext \in {<<".", "J", "P", "G">>, <<".", "j", "p", "g">>}}
DateInputs == {<<"2", "0", "2", "6", "1", "1", "0", "4">>}
\* the same and the day after
MoreDateInputs == DateInputs \cup {<<"2", "0", "2", "6", "1", "1", "0", "5">>}

\* values secrets.token_hex(16) may return
Salts == {"s1", "s2"}
AllSalts == Salts \cup {""}
TickSteps == {ThrottleWindow - 1, ThrottleWindow}

(***************************************************************************)
(* JSON documents are functions from keys to values.                       *)
(***************************************************************************)
EmptyDoc == <<>>
Get(u, k, d) == IF k \in DOMAIN u THEN u[k] ELSE d
Pop(u, k) == [x \in (DOMAIN u) \ {k} |-> u[x]]
Update(u, v) == [x \in (DOMAIN u) \cup (DOMAIN v) |->
                    IF x \in DOMAIN v THEN v[x] ELSE u[x]]

\* content of a path: no file, a file json.load rejects, or a document
Absent == [kind |-> "absent"]
Corrupt == [kind |-> "corrupt"]
Json(doc) == [kind |-> "json", doc |-> doc]
Exists(f) == f.kind # "absent"

\* hashlib.pbkdf2_hmac("sha256", pin, salt, 120000).hex(): the derived key
\* is determined by (pin, salt) and distinct pairs give distinct keys
NoHash == <<>>
Pbkdf2(pin, salt) == <<pin, salt>>

(***************************************************************************)
(* State: the application data directory and the clock, then the history   *)
(* variables the properties are stated with.                               *)
(***************************************************************************)
VARIABLES
    now,        \* _now(): the wall clock in seconds
    dirs,       \* mobiles m for which the directory users/<m>/ exists
    auth,       \* auth[m]: content of users/<m>/auth.json
    session,    \* content of session.json
    trashNow,   \* trashNow[m]: the directory trash/<m>_<now>: "none", or
                \*   "empty"/"full" after an archive of m in this second
    profile,    \* profile[m]: content of users/<m>/profile.json
    uploads,    \* uploads[m]: the directory users/<m>/uploads/
    pinOf,      \* history: the PIN last set for m by register/change_pin
    wrongRun,   \* history: wrong-PIN rejections of login(m) since the last
                \*   successful login(m) or register(m)
    wrongAt,    \* history: time of the most recent wrong-PIN rejection
    specRun,    \* history: the failure count of the specified two-state
                \*   throttle machine (restarts when the window expires)
    fresh,      \* history: fresh[m] is the call that set m's PIN, while no
                \*   later call has written or removed m's credential record
    sessBy,     \* history: the call that wrote session.json as it is now
    wr,         \* the writes in progress on one path, step by step: the
                \*   path's content, the temporary files beside it and
                \*   each writing process's position
    legacyMap,  \* auth/users.json: its users_by_mobile entries (none when
                \*   the file is absent), and history: whether a
                \*   construction has migrated it
    issued,     \* history: issued[m][d] is the largest number add_upload
                \*   has put in a name for mobile m and date key d, 0
                \*   when it has made none
    ui          \* PhotoApp of main.py: profile_data, the screen shown, and
                \*   history: the mobiles its last handler passed to
                \*   LocalStore operations

fsVars == <<dirs, auth, session, trashNow, profile, uploads>>
histVars == <<pinOf, wrongRun, wrongAt, specRun, fresh, sessBy>>
vars == <<now, fsVars, histVars, wr, legacyMap, issued, ui>>

NoPin == <<>>
NotFresh == [by |-> "-", was |-> "-", old |-> NoPin]
NoSession == [op |-> "-", replaced |-> NoMobile]
NoUploads == [exists |-> FALSE, files |-> {}]

\* _atomic_write_json(path, data) run to completion: the path holds data
AtomicWriteJson(data) == Json(data)

\* json.load(f) or {}
LoadOrEmpty(f) == IF f.doc = EmptyDoc THEN EmptyDoc ELSE f.doc

ThrottledAfterSix(fails, lastFailed, t) ==
    fails > ThrottleLimit /\ t - lastFailed < ThrottleWindow

ThrottledInclusive(fails, lastFailed, t) ==
    fails >= ThrottleLimit /\ t - lastFailed <= ThrottleWindow

\* the throttle test of login
Throttled(fails, lastFailed, t) ==
    fails >= ThrottleLimit /\ t - lastFailed < ThrottleWindow

\* history: what a call finds at users/<mob>/auth.json
RecordClass(f, t) ==
    IF ~Exists(f) THEN "none"
    ELSE IF f.kind = "corrupt" THEN "corrupt"
    ELSE IF Throttled(Get(f.doc, "failed_attempts", 0), Get(f.doc, "last_failed_at", 0), t)
         THEN "throttled" ELSE "normal"

\* history: the PIN the record accepts, NoPin when it accepts none
PinOfRecord(f) ==
    IF f.kind = "json" /\ Get(f.doc, "pin_salt", "") # ""
       /\ Get(f.doc, "pin_hash", NoHash) # NoHash
       /\ f.doc.pin_hash[2] = f.doc.pin_salt
    THEN f.doc.pin_hash[1] ELSE NoPin

(***************************************************************************)
(* AuthStore.register                                                      *)
(***************************************************************************)
RegisterDocKeepsThrottle(u0, mob, pin, newSalt, t) ==
    Update(u0, [mobile |-> mob, pin_salt |-> newSalt,
                pin_hash |-> Pbkdf2(pin, newSalt), updated_at |-> t])

RegisterDocKeepsPin(u0, mob, pin, newSalt, t) ==
    LET u1 == Update([mobile |-> mob, pin_salt |-> newSalt,
                      pin_hash |-> Pbkdf2(pin, newSalt), updated_at |-> t], u0)
    IN  Pop(Pop(u1, "failed_attempts"), "last_failed_at")

\* the record register writes: u.update({...}), then the two u.pop
RegisterDoc(u0, mob, pin, newSalt, t) ==
    LET u1 == Update(u0, [mobile |-> mob, pin_salt |-> newSalt,
                          pin_hash |-> Pbkdf2(pin, newSalt),
                          updated_at |-> t])
    IN  Pop(Pop(u1, "failed_attempts"), "last_failed_at")

RegisterOp(a, d, t, mobile, pin, newSalt) ==
    IF ~MobileOk(mobile)
    THEN [result |-> "ValidationError", ret |-> NoMobile, auth |-> a, dirs |-> d]
    ELSE
    LET mob == NormalizeMobile(mobile)
        d2  == d \cup {mob}
        u0  == IF Exists(a[mob])
               THEN IF a[mob].kind = "corrupt" THEN EmptyDoc
                    ELSE LoadOrEmpty(a[mob])
               ELSE [mobile |-> mob, created_at |-> t]
    IN  IF ~PinOk(pin)
        THEN [result |-> "ValidationError", ret |-> NoMobile, auth |-> a, dirs |-> d2]
        ELSE
        [result |-> "ok", ret |-> mob,
         auth |-> [a EXCEPT ![mob] = AtomicWriteJson(RegisterDoc(u0, mob, pin, newSalt, t))],
         dirs |-> d2]

\* secrets.token_hex(16) is called only by a _hash_pin that accepted the PIN
SaltChoices(pin) == IF PinOk(pin) THEN Salts ELSE {""}

Register(mobile, pin, newSalt) ==
    /\ newSalt \in SaltChoices(pin)
    /\ \E r \in {RegisterOp(auth, dirs, now, mobile, pin, newSalt)},
       mob \in {NormalizeMobile(mobile)} :
        /\ auth' = r.auth
        /\ dirs' = r.dirs
        /\ IF r.result = "ok"
           THEN /\ pinOf' = [pinOf EXCEPT ![mob] = pin]
                /\ wrongRun' = [wrongRun EXCEPT ![mob] = 0]
                /\ specRun' = [specRun EXCEPT ![mob] = 0]
                /\ fresh' = [fresh EXCEPT ![mob] =
                                [by |-> "register", was |-> RecordClass(auth[mob], now),
                                 old |-> pinOf[mob]]]
           ELSE UNCHANGED <<pinOf, wrongRun, specRun, fresh>>
        /\ UNCHANGED <<ui, issued, legacyMap, wr, now, session, trashNow, profile, uploads, wrongAt, sessBy>>

(***************************************************************************)
(* AuthStore.login                                                         *)
(***************************************************************************)
LoginSuccessDocKeepsCount(u, t) == Update(u, [updated_at |-> t])

\* the record a successful login writes
LoginSuccessDoc(u, t) ==
    Update(Pop(Pop(u, "failed_attempts"), "last_failed_at"), [updated_at |-> t])

\* the record a wrong-PIN login writes
LoginFailureDoc(u, fails, t) ==
    Update(u, [failed_attempts |-> fails + 1, last_failed_at |-> t])

SessionDocKeepsPrior(s, mob, t) ==
    IF Exists(s) /\ s.kind = "json" THEN Update([mobile |-> mob, login_at |-> t], s.doc)
    ELSE [mobile |-> mob, login_at |-> t]

\* the session record login and set_current_user write over session.json
SessionDoc(s, mob, t) == [mobile |-> mob, login_at |-> t]

LoginFailEndsSession(a, s, code) ==
    [result |-> code, ret |-> NoMobile, auth |-> a, session |-> Absent]

LoginFail(a, s, code) == [result |-> code, ret |-> NoMobile, auth |-> a, session |-> s]

LoginOpCountsThrottled(a, s, t, mobile, pin) ==
    IF ~MobileOk(mobile) THEN LoginFail(a, s, "ValidationError")
    ELSE
    LET mob == NormalizeMobile(mobile) IN
    IF ~Exists(a[mob]) THEN LoginFail(a, s, "NotFoundError")
    ELSE IF a[mob].kind = "corrupt" THEN LoginFail(a, s, "CorruptedError")
    ELSE
    LET u == LoadOrEmpty(a[mob])
        fails == Get(u, "failed_attempts", 0)
        lastFailed == Get(u, "last_failed_at", 0)
        salt == Get(u, "pin_salt", "")
        expect == Get(u, "pin_hash", NoHash)
    IN
    IF Throttled(fails, lastFailed, t)
    THEN LoginFail([a EXCEPT ![mob] = AtomicWriteJson(LoginFailureDoc(u, fails, t))], s,
                   "ThrottledError")
    ELSE IF ~(salt # "" /\ expect # NoHash) THEN LoginFail(a, s, "UninitializedError")
    ELSE IF ~PinOk(pin) THEN LoginFail(a, s, "ValidationError")
    ELSE IF Pbkdf2(pin, salt) # expect
    THEN LoginFail([a EXCEPT ![mob] = AtomicWriteJson(LoginFailureDoc(u, fails, t))], s,
                   "InvalidCredentialsError")
    ELSE [result |-> "ok", ret |-> mob,
          auth |-> [a EXCEPT ![mob] = AtomicWriteJson(LoginSuccessDoc(u, t))],
          session |-> AtomicWriteJson(SessionDoc(s, mob, t))]

LoginOp(a, s, t, mobile, pin) ==
    IF ~MobileOk(mobile) THEN LoginFail(a, s, "ValidationError")
    ELSE
    LET mob == NormalizeMobile(mobile) IN
    IF ~Exists(a[mob]) THEN LoginFail(a, s, "NotFoundError")
    ELSE IF a[mob].kind = "corrupt" THEN LoginFail(a, s, "CorruptedError")
    ELSE
    LET u == LoadOrEmpty(a[mob])
        fails == Get(u, "failed_attempts", 0)
        lastFailed == Get(u, "last_failed_at", 0)
        salt == Get(u, "pin_salt", "")
        expect == Get(u, "pin_hash", NoHash)
    IN
    IF Throttled(fails, lastFailed, t) THEN LoginFail(a, s, "ThrottledError")
    ELSE IF ~(salt # "" /\ expect # NoHash) THEN LoginFail(a, s, "UninitializedError")
    ELSE IF ~PinOk(pin) THEN LoginFail(a, s, "ValidationError")
    ELSE IF Pbkdf2(pin, salt) # expect
    THEN LoginFail([a EXCEPT ![mob] = AtomicWriteJson(LoginFailureDoc(u, fails, t))], s,
                   "InvalidCredentialsError")
    ELSE [result |-> "ok", ret |-> mob,
          auth |-> [a EXCEPT ![mob] = AtomicWriteJson(LoginSuccessDoc(u, t))],
          session |-> AtomicWriteJson(SessionDoc(s, mob, t))]

\* the mobile current_user() returns, NoMobile for None
CurrentUserOp(s) ==
    IF ~Exists(s) THEN NoMobile
    ELSE IF s.kind = "corrupt" THEN NoMobile
    ELSE NormalizeMobile(Get(LoadOrEmpty(s), "mobile", <<>>))

\* wrong-PIN logins are explored while fewer than cap of them are in a row
Login(mobile, pin, cap) ==
    \E r \in {LoginOp(auth, session, now, mobile, pin)},
       mob \in {NormalizeMobile(mobile)} :
        /\ r.result = "InvalidCredentialsError" => wrongRun[mob] < cap
        /\ auth' = r.auth
        /\ session' = r.session
        /\ CASE r.result = "ok" ->
                  /\ wrongRun' = [wrongRun EXCEPT ![mob] = 0]
                  /\ specRun' = [specRun EXCEPT ![mob] = 0]
                  /\ fresh' = [fresh EXCEPT ![mob] = NotFresh]
                  /\ sessBy' = [op |-> "login", replaced |-> CurrentUserOp(session)]
                  /\ UNCHANGED wrongAt
             [] r.result = "InvalidCredentialsError" ->
                  /\ wrongRun' = [wrongRun EXCEPT ![mob] = @ + 1]
                  /\ wrongAt' = [wrongAt EXCEPT ![mob] = now]
                  /\ specRun' = [specRun EXCEPT ![mob] =
                        IF @ >= ThrottleLimit /\ now - wrongAt[mob] >= ThrottleWindow
                        THEN 1 ELSE @ + 1]
                  /\ fresh' = [fresh EXCEPT ![mob] = NotFresh]
                  /\ UNCHANGED sessBy
             [] OTHER -> UNCHANGED <<wrongRun, wrongAt, specRun, fresh, sessBy>>
        /\ UNCHANGED <<ui, issued, legacyMap, wr, now, dirs, trashNow, profile, uploads, pinOf>>

(***************************************************************************)
(* AuthStore.logout, current_user, user_exists, list_users                 *)
(***************************************************************************)
\* variant: the file is removed only when it parses
LogoutOpParsedOnly(s) == IF s.kind = "corrupt" THEN s ELSE Absent

\* os.remove(session_path) when the path exists, whatever it holds
LogoutOp(s) == Absent

Logout ==
    /\ session' = LogoutOp(session)
    /\ sessBy' = IF Exists(session) THEN [op |-> "logout", replaced |-> NoMobile] ELSE sessBy
    /\ UNCHANGED <<ui, issued, legacyMap, wr, now, dirs, auth, trashNow, profile, uploads,
                   pinOf, wrongRun, wrongAt, specRun, fresh>>

\* current_user reads session.json and writes nothing
CurrentUser ==
    /\ CurrentUserOp(session) \in Users \cup {NoMobile}
    /\ UNCHANGED vars

UserExistsOp(a, mobile) ==
    IF ~MobileOk(mobile) THEN FALSE ELSE Exists(a[NormalizeMobile(mobile)])

UserExists(mobile) ==
    /\ UserExistsOp(auth, mobile) \in BOOLEAN
    /\ UNCHANGED vars

\* order of str: by code point, character by character, a prefix first
CodePoint(c) ==
    CASE c = "-" -> 45 [] c = "." -> 46 [] c = "_" -> 95 [] c = "u0663" -> 1635
      [] c = "g" -> 103 [] c = "j" -> 106 [] c = "m" -> 109 [] c = "p" -> 112
      [] c \in AsciiDigits ->
            48 + (CHOOSE i \in 0..9 : <<"0", "1", "2", "3", "4", "5", "6", "7", "8", "9">>[i + 1] = c)
      [] OTHER -> 97
RECURSIVE StrLess(_, _)
StrLess(x, y) ==
    IF y = <<>> THEN FALSE
    ELSE IF x = <<>> THEN TRUE
    ELSE IF Head(x) = Head(y) THEN StrLess(Tail(x), Tail(y))
    ELSE CodePoint(Head(x)) < CodePoint(Head(y))

\* sorted(S) for a set S of names
RECURSIVE Sorted(_)
Sorted(S) ==
    IF S = {} THEN <<>>
    ELSE LET least == CHOOSE x \in S : \A y \in S \ {x} : StrLess(x, y)
         IN  <<least>> \o Sorted(S \ {least})

ListUsersOp(d, a) ==
    Sorted({name \in d : MOBILE_RE(name) /\ name \in DOMAIN a /\ Exists(a[name])})

ListUsers ==
    /\ Len(ListUsersOp(dirs, auth)) <= Cardinality(dirs)
    /\ UNCHANGED vars

(***************************************************************************)
(* AuthStore.verify_pin, change_pin                                        *)
(***************************************************************************)
\* variant: _hash_pin called without salt=salt, so with a salt of its own
VerifyPinOpOwnSalt(a, mobile, pin) ==
    IF ~MobileOk(mobile) THEN "ValidationError"
    ELSE
    LET mob == NormalizeMobile(mobile) IN
    IF ~Exists(a[mob]) THEN "false"
    ELSE IF a[mob].kind = "corrupt" THEN "JSONDecodeError"
    ELSE
    LET u == LoadOrEmpty(a[mob])
        salt == Get(u, "pin_salt", "")
        expect == Get(u, "pin_hash", NoHash)
    IN  IF ~(salt # "" /\ expect # NoHash) THEN "false"
        ELSE IF ~PinOk(pin) THEN "ValidationError"
        ELSE IF Pbkdf2(pin, "s1") = expect THEN "true" ELSE "false"

\* the value verify_pin returns, "true" or "false", or the error it raises
VerifyPinOp(a, mobile, pin) ==
    IF ~MobileOk(mobile) THEN "ValidationError"
    ELSE
    LET mob == NormalizeMobile(mobile) IN
    IF ~Exists(a[mob]) THEN "false"
    ELSE IF a[mob].kind = "corrupt" THEN "JSONDecodeError"
    ELSE
    LET u == LoadOrEmpty(a[mob])
        salt == Get(u, "pin_salt", "")
        expect == Get(u, "pin_hash", NoHash)
    IN  IF ~(salt # "" /\ expect # NoHash) THEN "false"
        ELSE IF ~PinOk(pin) THEN "ValidationError"
        ELSE IF Pbkdf2(pin, salt) = expect THEN "true" ELSE "false"

VerifyPin(mobile, pin) ==
    /\ VerifyPinOp(auth, mobile, pin) \in {"true", "false", "ValidationError", "JSONDecodeError"}
    /\ UNCHANGED vars

ChangePinDocKeepsSalt(u, newPin, newSalt, t) ==
    Update(u, [pin_hash |-> Pbkdf2(newPin, newSalt), updated_at |-> t])

ChangePinDocClearsThrottle(u, newPin, newSalt, t) ==
    Pop(Pop(Update(u, [pin_salt |-> newSalt, pin_hash |-> Pbkdf2(newPin, newSalt),
                       updated_at |-> t]), "failed_attempts"), "last_failed_at")

\* the record change_pin writes
ChangePinDoc(u, newPin, newSalt, t) ==
    Update(u, [pin_salt |-> newSalt, pin_hash |-> Pbkdf2(newPin, newSalt),
               updated_at |-> t])

ChangePinOpCountsFailure(a, t, mobile, oldPin, newPin, newSalt) ==
    LET v == VerifyPinOp(a, mobile, oldPin) IN
    IF v = "false" /\ MobileOk(mobile) /\ Exists(a[NormalizeMobile(mobile)])
    THEN LET mob == NormalizeMobile(mobile)
             u == LoadOrEmpty(a[mob])
         IN  [result |-> "InvalidCredentialsError",
              auth |-> [a EXCEPT ![mob] = AtomicWriteJson(
                           LoginFailureDoc(u, Get(u, "failed_attempts", 0), t))]]
    ELSE IF v = "false" THEN [result |-> "InvalidCredentialsError", auth |-> a]
    ELSE IF v # "true" THEN [result |-> v, auth |-> a]
    ELSE IF ~PinOk(newPin) THEN [result |-> "ValidationError", auth |-> a]
    ELSE LET mob == NormalizeMobile(mobile)
         IN  [result |-> "ok",
              auth |-> [a EXCEPT ![mob] = AtomicWriteJson(
                           ChangePinDoc(LoadOrEmpty(a[mob]), newPin, newSalt, t))]]

ChangePinOp(a, t, mobile, oldPin, newPin, newSalt) ==
    LET v == VerifyPinOp(a, mobile, oldPin) IN
    IF v = "false" THEN [result |-> "InvalidCredentialsError", auth |-> a]
    ELSE IF v # "true" THEN [result |-> v, auth |-> a]
    ELSE IF ~PinOk(newPin) THEN [result |-> "ValidationError", auth |-> a]
    ELSE
    LET mob == NormalizeMobile(mobile)
        u == LoadOrEmpty(a[mob])
    IN  [result |-> "ok",
         auth |-> [a EXCEPT ![mob] = AtomicWriteJson(ChangePinDoc(u, newPin, newSalt, t))]]

ChangePin(mobile, oldPin, newPin, newSalt) ==
    /\ newSalt \in SaltChoices(newPin)
    /\ \E r \in {ChangePinOp(auth, now, mobile, oldPin, newPin, newSalt)},
       mob \in {NormalizeMobile(mobile)} :
        /\ auth' = r.auth
        /\ IF r.result = "ok"
           THEN /\ pinOf' = [pinOf EXCEPT ![mob] = newPin]
                /\ fresh' = [fresh EXCEPT ![mob] =
                                [by |-> "change_pin", was |-> RecordClass(auth[mob], now),
                                 old |-> oldPin]]
           ELSE UNCHANGED <<pinOf, fresh>>
        /\ UNCHANGED <<ui, issued, legacyMap, wr, now, dirs, session, trashNow, profile, uploads,
                       wrongRun, wrongAt, specRun, sessBy>>

(***************************************************************************)
(* AuthStore.delete_user, set_current_user                                 *)
(***************************************************************************)
\* variant: the session is removed whichever mobile it names
ClearSessionAny(s, mob) == Absent

\* variant: the session is left as it is
ClearSessionNever(s, mob) == s

\* session.json after the "clear session if it belonged to this user" block
ClearSessionOf(s, mob) ==
    IF Exists(s) /\ s.kind = "json"
       /\ NormalizeMobile(Get(LoadOrEmpty(s), "mobile", <<>>)) = mob
    THEN Absent ELSE s

\* no entry in users/<mob>/
DirEmpty(a, pr, up, mob) == ~Exists(a[mob]) /\ ~Exists(pr[mob]) /\ ~up[mob].exists

\* variant: the archive copies the user directory instead of moving it
DeleteUserOpArchiveCopies(a, d, s, tn, pr, up, mobile, archive) ==
    LET same == [result |-> "", auth |-> a, dirs |-> d, session |-> s,
                 trashNow |-> tn, profile |-> pr, uploads |-> up] IN
    IF ~MobileOk(mobile) THEN [same EXCEPT !.result = "ValidationError"]
    ELSE
    LET mob == NormalizeMobile(mobile) IN
    IF mob \notin d THEN [same EXCEPT !.result = "false"]
    ELSE IF archive /\ tn[mob] = "full" THEN [same EXCEPT !.result = "OSError"]
    ELSE IF archive
    THEN [same EXCEPT !.result = "true",
                      !.session = ClearSessionOf(s, mob),
                      !.trashNow = [tn EXCEPT ![mob] =
                                      IF DirEmpty(a, pr, up, mob) THEN "empty" ELSE "full"]]
    ELSE [result |-> "true",
          auth |-> [a EXCEPT ![mob] = Absent],
          dirs |-> d \ {mob},
          session |-> ClearSessionOf(s, mob),
          trashNow |-> tn,
          profile |-> [pr EXCEPT ![mob] = Absent],
          uploads |-> [up EXCEPT ![mob] = NoUploads]]

\* os.rename(udir, trash/<mob>_<now>) raises OSError when that directory
\* exists and is not empty (POSIX rename)
DeleteUserOp(a, d, s, tn, pr, up, mobile, archive) ==
    LET same == [result |-> "", auth |-> a, dirs |-> d, session |-> s,
                 trashNow |-> tn, profile |-> pr, uploads |-> up] IN
    IF ~MobileOk(mobile) THEN [same EXCEPT !.result = "ValidationError"]
    ELSE
    LET mob == NormalizeMobile(mobile) IN
    IF mob \notin d THEN [same EXCEPT !.result = "false"]
    ELSE IF archive /\ tn[mob] = "full" THEN [same EXCEPT !.result = "OSError"]
    ELSE [result |-> "true",
          auth |-> [a EXCEPT ![mob] = Absent],
          dirs |-> d \ {mob},
          session |-> ClearSessionOf(s, mob),
          trashNow |-> IF archive
                       THEN [tn EXCEPT ![mob] =
                               IF DirEmpty(a, pr, up, mob) THEN "empty" ELSE "full"]
                       ELSE tn,
          profile |-> [pr EXCEPT ![mob] = Absent],
          uploads |-> [up EXCEPT ![mob] = NoUploads]]

DeleteUser(mobile, archive) ==
    \E r \in {DeleteUserOp(auth, dirs, session, trashNow, profile, uploads, mobile, archive)},
       mob \in {NormalizeMobile(mobile)} :
        /\ auth' = r.auth
        /\ dirs' = r.dirs
        /\ session' = r.session
        /\ trashNow' = r.trashNow
        /\ profile' = r.profile
        /\ uploads' = r.uploads
        /\ IF r.result = "true"
           THEN /\ pinOf' = [pinOf EXCEPT ![mob] = NoPin]
                /\ wrongRun' = [wrongRun EXCEPT ![mob] = 0]
                /\ specRun' = [specRun EXCEPT ![mob] = 0]
                /\ fresh' = [fresh EXCEPT ![mob] = NotFresh]
                /\ sessBy' = IF r.session = session THEN sessBy ELSE NoSession
           ELSE UNCHANGED <<pinOf, wrongRun, specRun, fresh, sessBy>>
        /\ UNCHANGED <<ui, issued, legacyMap, wr, now, wrongAt>>

\* variant: a record login would not accept counts as no user
SetCurrentUserOpUsableOnly(a, s, t, mobile) ==
    IF ~MobileOk(mobile) THEN [result |-> "ValidationError", ret |-> NoMobile, session |-> s]
    ELSE IF RecordClass(a[NormalizeMobile(mobile)], t) # "normal"
            \/ PinOfRecord(a[NormalizeMobile(mobile)]) = NoPin
    THEN [result |-> "NotFoundError", ret |-> NoMobile, session |-> s]
    ELSE LET mob == NormalizeMobile(mobile)
         IN  [result |-> "ok", ret |-> mob,
              session |-> AtomicWriteJson(SessionDoc(s, mob, t))]

SetCurrentUserOp(a, s, t, mobile) ==
    IF ~MobileOk(mobile) THEN [result |-> "ValidationError", ret |-> NoMobile, session |-> s]
    ELSE IF ~UserExistsOp(a, NormalizeMobile(mobile))
    THEN [result |-> "NotFoundError", ret |-> NoMobile, session |-> s]
    ELSE LET mob == NormalizeMobile(mobile)
         IN  [result |-> "ok", ret |-> mob,
              session |-> AtomicWriteJson(SessionDoc(s, mob, t))]

SetCurrentUser(mobile) ==
    \E r \in {SetCurrentUserOp(auth, session, now, mobile)} :
        /\ session' = r.session
        /\ sessBy' = IF r.result = "ok"
                     THEN [op |-> "set_current_user", replaced |-> CurrentUserOp(session)]
                     ELSE sessBy
        /\ UNCHANGED <<ui, issued, legacyMap, wr, now, dirs, auth, trashNow, profile, uploads,
                       pinOf, wrongRun, wrongAt, specRun, fresh>>

(***************************************************************************)
(* LocalStore: text helpers.                                               *)
(***************************************************************************)
\* LocalStore._norm_mobile: the normalized mobile, NoMobile on ValueError
NormMobile(mobile) ==
    LET m == StripNonDigits(mobile)
    IN  IF Len(m) = MobileLen THEN m ELSE NoMobile

\* str.lower() on the letters of the modelled extensions
LowerChar(c) ==
    CASE c = "J" -> "j" [] c = "P" -> "p" [] c = "G" -> "g" [] c = "M" -> "m"
      [] OTHER -> c
Lower(x) == [i \in 1..Len(x) |-> LowerChar(x[i])]

\* str(n) for n >= 0
RECURSIVE Dec(_)
Dec(n) ==
    LET d == <<"0", "1", "2", "3", "4", "5", "6", "7", "8", "9">>[(n % 10) + 1]
    IN  IF n < 10 THEN <<d>> ELSE Dec(n \div 10) \o <<d>>

\* int(x) for a string of decimal digits; -1 stands for ValueError
DigitOf(c) ==
    IF c = "u0663" THEN 3
    ELSE CHOOSE i \in 0..9 : <<"0", "1", "2", "3", "4", "5", "6", "7", "8", "9">>[i + 1] = c
RECURSIVE IntOfDigits(_)
IntOfDigits(x) ==
    IF x = <<>> THEN 0
    ELSE 10 * IntOfDigits(SubSeq(x, 1, Len(x) - 1)) + DigitOf(x[Len(x)])
ParseInt(x) ==
    IF x # <<>> /\ \A i \in 1..Len(x) : x[i] \in UnicodeDigits THEN IntOfDigits(x) ELSE -1

\* os.path.splitext(name): <<root, ext>>; the extension starts at the last
\* dot, unless only dots precede it
SplitExt(name) ==
    LET dots == {i \in 1..Len(name) : name[i] = "."} IN
    IF dots = {} THEN <<name, <<>>>>
    ELSE LET k == CHOOSE i \in dots : \A j \in dots : j <= i IN
         IF \A j \in 1..(k - 1) : name[j] = "." THEN <<name, <<>>>>
         ELSE <<SubSeq(name, 1, k - 1), SubSeq(name, k, Len(name))>>

StartsWith(x, prefix) ==
    Len(x) >= Len(prefix) /\ SubSeq(x, 1, Len(prefix)) = prefix

\* base.split("_", 2)[2]: what follows the second underscore of a name
\* that has two
AfterSecondUnderscore(base) ==
    LET us == {i \in 1..Len(base) : base[i] = "_"}
        k1 == CHOOSE i \in us : \A j \in us : i <= j
        k2 == CHOOSE i \in us \ {k1} : \A j \in us \ {k1} : i <= j
    IN  SubSeq(base, k2 + 1, Len(base))

(***************************************************************************)
(* LocalStore.load_profile, save_profile                                   *)
(***************************************************************************)
\* data.setdefault(k, v)
SetDefault(data, k, v) ==
    IF k \in DOMAIN data THEN data ELSE Update(data, [x \in {k} |-> v])

ProfileDefaultsResets(data, mob) ==
    Update(data, [mobile |-> mob, name |-> "", email |-> "", state |-> "",
                  district |-> "", address |-> ""])

ProfileDefaults(data, mob) ==
    SetDefault(SetDefault(SetDefault(SetDefault(SetDefault(SetDefault(
        data, "mobile", mob), "name", ""), "email", ""), "state", ""),
        "district", ""), "address", "")

\* open(p, "w") and json.dump(data, f), run to completion
PlainWriteJson(data) == Json(data)

LoadProfileOpReadOnly(pr, d, mobile) ==
    IF NormMobile(mobile) = NoMobile
    THEN [result |-> "ValidationError", ret |-> EmptyDoc, profile |-> pr, dirs |-> d]
    ELSE
    LET mob == NormMobile(mobile)
        data0 == IF pr[mob].kind = "json" THEN pr[mob].doc ELSE EmptyDoc
    IN  [result |-> "ok", ret |-> ProfileDefaults(data0, mob),
         profile |-> pr, dirs |-> d \cup {mob}]

LoadProfileOp(pr, d, mobile) ==
    IF NormMobile(mobile) = NoMobile
    THEN [result |-> "ValidationError", ret |-> EmptyDoc, profile |-> pr, dirs |-> d]
    ELSE
    LET mob == NormMobile(mobile)
        data0 == IF pr[mob].kind = "json" THEN pr[mob].doc ELSE EmptyDoc
        data == ProfileDefaults(data0, mob)
    IN  [result |-> "ok", ret |-> data,
         profile |-> [pr EXCEPT ![mob] = PlainWriteJson(data)],
         dirs |-> d \cup {mob}]

LoadProfile(mobile) ==
    \E r \in {LoadProfileOp(profile, dirs, mobile)} :
        /\ profile' = r.profile
        /\ dirs' = r.dirs
        /\ UNCHANGED <<ui, issued, legacyMap, wr, now, auth, session, trashNow, uploads, histVars>>

SaveProfileOpMerges(pr, d, mobile, data) ==
    IF NormMobile(mobile) = NoMobile
    THEN [result |-> "ValidationError", profile |-> pr, dirs |-> d]
    ELSE LET mob == NormMobile(mobile)
             old == IF pr[mob].kind = "json" THEN pr[mob].doc ELSE EmptyDoc
         IN  [result |-> "ok",
              profile |-> [pr EXCEPT ![mob] = PlainWriteJson(Update(old, data))],
              dirs |-> d \cup {mob}]

SaveProfileOp(pr, d, mobile, data) ==
    IF NormMobile(mobile) = NoMobile
    THEN [result |-> "ValidationError", profile |-> pr, dirs |-> d]
    ELSE LET mob == NormMobile(mobile)
         IN  [result |-> "ok",
              profile |-> [pr EXCEPT ![mob] = PlainWriteJson(data)],
              dirs |-> d \cup {mob}]

SaveProfile(mobile, data) ==
    \E r \in {SaveProfileOp(profile, dirs, mobile, data)} :
        /\ profile' = r.profile
        /\ dirs' = r.dirs
        /\ UNCHANGED <<ui, issued, legacyMap, wr, now, auth, session, trashNow, uploads, histVars>>

(***************************************************************************)
(* LocalStore.add_upload, list_uploads_for_mobile                          *)
(***************************************************************************)
VideoExts ==
    {<<".", "m", "p", "4">>, <<".", "a", "v", "i">>, <<".", "m", "o", "v">>,
     <<".", "m", "k", "v">>, <<".", "w", "e", "b", "m">>, <<".", "3", "g", "p">>}
DetectMediaType(ext) == IF Lower(ext) \in VideoExts THEN "video" ELSE "image"

UploadPrefix(mob, dateKey) == mob \o <<"_">> \o dateKey \o <<"_">>

\* the numbers _next_digit_for_day collects from the names of the directory
DayDigits(files, mob, dateKey) ==
    {ParseInt(SplitExt(AfterSecondUnderscore(base))[1]) :
        base \in {f \in files : StartsWith(f, UploadPrefix(mob, dateKey))}} \ {-1}

NextDigitForDayCount(files, mob, dateKey) ==
    Cardinality(DayDigits(files, mob, dateKey)) + 1

NextDigitForDaySmallestFree(files, mob, dateKey) ==
    LET digits == DayDigits(files, mob, dateKey)
    IN  CHOOSE n \in 1..(Cardinality(digits) + 1) :
            n \notin digits /\ \A k \in 1..(n - 1) : k \in digits

NextDigitForDay(files, mob, dateKey) ==
    LET digits == DayDigits(files, mob, dateKey)
    IN  IF digits = {} THEN 1
        ELSE (CHOOSE x \in digits : \A y \in digits : y <= x) + 1

AddUploadOpMakesDirFirst(up, d, mobile, src, dateKey) ==
    IF NormMobile(mobile) = NoMobile
    THEN [result |-> "ValidationError", filename |-> <<>>, media |-> "-",
          uploads |-> up, dirs |-> d]
    ELSE
    LET mob == NormMobile(mobile)
        up2 == [up EXCEPT ![mob].exists = TRUE]
        ext == Lower(src.ext)
        digit == NextDigitForDay(up[mob].files, mob, dateKey)
        destName == UploadPrefix(mob, dateKey) \o Dec(digit) \o ext
    IN  IF ~src.isfile
        THEN [result |-> "NotFoundError", filename |-> <<>>, media |-> "-",
              uploads |-> up2, dirs |-> d \cup {mob}]
        ELSE [result |-> "ok", filename |-> destName, media |-> DetectMediaType(ext),
              uploads |-> [up2 EXCEPT ![mob].files = @ \cup {destName}],
              dirs |-> d \cup {mob}]

AddUploadOp(up, d, mobile, src, dateKey) ==
    IF NormMobile(mobile) = NoMobile
    THEN [result |-> "ValidationError", filename |-> <<>>, media |-> "-",
          uploads |-> up, dirs |-> d]
    ELSE IF ~src.isfile
    THEN [result |-> "NotFoundError", filename |-> <<>>, media |-> "-",
          uploads |-> up, dirs |-> d]
    ELSE
    LET mob == NormMobile(mobile)
        ext == Lower(src.ext)
        digit == NextDigitForDay(up[mob].files, mob, dateKey)
        destName == UploadPrefix(mob, dateKey) \o Dec(digit) \o ext
    IN  [result |-> "ok", filename |-> destName, media |-> DetectMediaType(ext),
         uploads |-> [up EXCEPT ![mob] =
                        [exists |-> TRUE, files |-> @.files \cup {destName}]],
         dirs |-> d \cup {mob}]

AddUpload(mobile, src, dateKey, cap) ==
    \E r \in {AddUploadOp(uploads, dirs, mobile, src, dateKey)} :
        /\ r.result = "ok" =>
              /\ Cardinality(uploads[NormMobile(mobile)].files) < cap
              /\ NextDigitForDay(uploads[NormMobile(mobile)].files,
                                 NormMobile(mobile), dateKey) <= cap + 1
        /\ uploads' = r.uploads
        /\ dirs' = r.dirs
        /\ issued' =
              IF r.result # "ok" THEN issued
              ELSE LET mob == NormMobile(mobile)
                       digit == NextDigitForDay(uploads[mob].files, mob, dateKey)
                   IN  [issued EXCEPT ![mob][dateKey] = IF digit > @ THEN digit ELSE @]
        /\ UNCHANGED <<ui, legacyMap, wr, now, auth, session, trashNow, profile, histVars>>

\* the second definition of list_uploads_for_mobile, the one in effect: the
\* filenames of the rows it returns, in order
ListUploadsOpUnfiltered(up, mobile) ==
    IF NormMobile(mobile) = NoMobile THEN [result |-> "ValidationError", rows |-> <<>>]
    ELSE LET mob == NormMobile(mobile) IN
         IF ~up[mob].exists THEN [result |-> "ok", rows |-> <<>>]
         ELSE [result |-> "ok", rows |-> Sorted(up[mob].files)]

ListUploadsOp(up, mobile) ==
    IF NormMobile(mobile) = NoMobile THEN [result |-> "ValidationError", rows |-> <<>>]
    ELSE LET mob == NormMobile(mobile) IN
         IF ~up[mob].exists THEN [result |-> "ok", rows |-> <<>>]
         ELSE [result |-> "ok",
               rows |-> Sorted({base \in up[mob].files : StartsWith(base, mob \o <<"_">>)})]

ListUploads(mobile) ==
    /\ Len(ListUploadsOp(uploads, mobile).rows) <= MaxSeq
    /\ UNCHANGED vars

(***************************************************************************)
(* AuthStore.__init__ with a legacy auth/users.json: the migration.  The   *)
(* store never writes or renames the legacy file, so what it holds at a    *)
(* construction is an input of the construction.  users_by_mobile is a     *)
(* sequence of entries [key, rec] in the order the dict yields them.       *)
(***************************************************************************)
LegacyFull == [pin_salt |-> "s2", pin_hash |-> Pbkdf2(Pin2, "s2"),
               created_at |-> 0, updated_at |-> 0]
LegacyInputs ==
    {<<[key |-> MobShort, rec |-> LegacyFull], [key |-> MobAFormatted, rec |-> LegacyFull]>>,
     <<[key |-> MobB, rec |-> EmptyDoc]>>,
     <<[key |-> MobB, rec |-> [pin_salt |-> "s2"]]>>}

\* no auth/users.json (os.path.exists(legacy_map) is false)
NoLegacy == [map |-> <<>>, migrated |-> FALSE]

\* the payload written for one entry
MigratePayload(mobn, rec, t) ==
    [mobile |-> mobn,
     pin_salt |-> Get(rec, "pin_salt", ""),
     pin_hash |-> Get(rec, "pin_hash", NoHash),
     created_at |-> Get(rec, "created_at", t),
     updated_at |-> Get(rec, "updated_at", t)]

\* one turn of the loop over users_map.items()
MigrateEntry(st, e, t) ==
    LET mobn == StripNonDigits(e.key) IN
    IF ~MOBILE_RE(mobn) THEN st
    ELSE [auth |-> [st.auth EXCEPT ![mobn] = AtomicWriteJson(MigratePayload(mobn, e.rec, t))],
          dirs |-> st.dirs \cup {mobn}]

RECURSIVE MigrateOp(_, _, _, _)
MigrateOp(a, d, t, legacy) ==
    IF legacy = <<>> THEN [auth |-> a, dirs |-> d]
    ELSE LET st == MigrateOp(a, d, t, SubSeq(legacy, 1, Len(legacy) - 1))
         IN  MigrateEntry(st, legacy[Len(legacy)], t)

\* history: the mobiles a migration writes
MigratedMobiles(legacy) ==
    {StripNonDigits(legacy[i].key) : i \in 1..Len(legacy)} \cap Users

Startup(legacy) ==
    \E r \in {MigrateOp(auth, dirs, now, legacy)} :
        /\ auth' = r.auth
        /\ dirs' = r.dirs
        /\ pinOf' = [m \in Users |->
                        IF m \in MigratedMobiles(legacy) THEN PinOfRecord(r.auth[m]) ELSE pinOf[m]]
        /\ wrongRun' = [m \in Users |-> IF m \in MigratedMobiles(legacy) THEN 0 ELSE wrongRun[m]]
        /\ specRun' = [m \in Users |-> IF m \in MigratedMobiles(legacy) THEN 0 ELSE specRun[m]]
        /\ fresh' = [m \in Users |-> IF m \in MigratedMobiles(legacy) THEN NotFresh ELSE fresh[m]]
        /\ legacyMap' = [legacyMap EXCEPT !.migrated = TRUE]
        /\ UNCHANGED <<ui, issued, wr, now, session, trashNow, profile, uploads, wrongAt, sessBy>>

(***************************************************************************)
(* The environment: a file of the data directory damaged outside the       *)
(* stores, so that json.load rejects it.                                   *)
(***************************************************************************)
CorruptAuth(m) ==
    /\ Exists(auth[m]) /\ auth[m] # Corrupt
    /\ auth' = [auth EXCEPT ![m] = Corrupt]
    /\ pinOf' = [pinOf EXCEPT ![m] = NoPin]
    /\ wrongRun' = [wrongRun EXCEPT ![m] = 0]
    /\ specRun' = [specRun EXCEPT ![m] = 0]
    /\ fresh' = [fresh EXCEPT ![m] = NotFresh]
    /\ UNCHANGED <<ui, issued, legacyMap, wr, now, dirs, session, trashNow, profile, uploads, wrongAt, sessBy>>

\* a file of an upload directory removed outside the store (the gallery of
\* main.py does it with os.remove)
RemoveUpload(m, f) ==
    /\ f \in uploads[m].files
    /\ uploads' = [uploads EXCEPT ![m].files = @ \ {f}]
    /\ UNCHANGED <<ui, issued, legacyMap, wr, now, dirs, auth, session, trashNow, profile, histVars>>

\* names put into an upload directory outside the store: a file of another
\* user, which lacks the directory's "<mobile>_" prefix
ForeignNames ==
    {UploadPrefix(MobB, <<"2", "0", "2", "6", "1", "1", "0", "4">>) \o <<"1", ".", "j", "p", "g">>}

PlaceFile(m, name) ==
    /\ uploads[m].exists /\ name \notin uploads[m].files
    /\ uploads' = [uploads EXCEPT ![m].files = @ \cup {name}]
    /\ UNCHANGED <<ui, issued, legacyMap, wr, now, dirs, auth, session, trashNow, profile, histVars>>

CorruptProfile(m) ==
    /\ Exists(profile[m]) /\ profile[m] # Corrupt
    /\ profile' = [profile EXCEPT ![m] = Corrupt]
    /\ UNCHANGED <<ui, issued, legacyMap, wr, now, dirs, auth, session, trashNow, uploads, histVars>>

CorruptSession ==
    /\ Exists(session) /\ session # Corrupt
    /\ session' = Corrupt
    /\ sessBy' = NoSession
    /\ UNCHANGED <<ui, issued, legacyMap, wr, now, dirs, auth, trashNow, profile, uploads,
                   pinOf, wrongRun, wrongAt, specRun, fresh>>

(***************************************************************************)
(* _atomic_write_json step by step, with the process killed at any step,   *)
(* and the plain open(p, "w") + json.dump of the profile writes.  wr holds *)
(* one destination path, the temporary files of its directory and the      *)
(* position of each writing process.  A file json.load rejects (empty or   *)
(* cut short) is Corrupt.                                                  *)
(***************************************************************************)
Writers == {1, 2}

\* tmp = None
NoTmp == 0

\* the document at the path before the writes, and the documents written
PreviousDoc == SessionDoc(Absent, MobA, 0)
WriterDocs == {SessionDoc(Absent, MobB, 0), SessionDoc(Absent, MobA, 1)}

\* no write in progress; the path holds d
WriterIdle(d) ==
    [dest |-> d,
     files |-> [n \in 1..MaxTmp |-> Absent],
     next |-> 1,
     pc |-> [w \in Writers |-> "idle"],
     doc |-> [w \in Writers |-> EmptyDoc],
     tmp |-> [w \in Writers |-> NoTmp],
     lastDoc |-> EmptyDoc]

\* the call: os.makedirs(d, exist_ok=True); fd = None; tmp = None
AtomicBegin(st, w, data) ==
    [st EXCEPT !.pc[w] = "mkstemp", !.doc[w] = data, !.tmp[w] = NoTmp]

AtomicMkstempFixedName(st, w) ==
    [st EXCEPT !.files[1] = Corrupt, !.tmp[w] = 1, !.pc[w] = "dump"]

\* tempfile.mkstemp: a new, empty file under a name no file of the
\* directory has (st.next: names are not used twice)
AtomicMkstemp(st, w) ==
    [st EXCEPT !.files[st.next] = Corrupt, !.tmp[w] = st.next,
               !.next = st.next + 1, !.pc[w] = "dump"]

AtomicDumpUnflushed(st, w) ==
    [st EXCEPT !.pc[w] = "replace"]

\* json.dump into the temporary file and the close at the end of `with`
AtomicDump(st, w) ==
    [st EXCEPT !.files[st.tmp[w]] = Json(st.doc[w]), !.pc[w] = "replace"]

\* the write raises (OSError): the temporary file stays cut short and
\* control goes to the finally clause
AtomicDumpFails(st, w) ==
    [st EXCEPT !.pc[w] = "finally"]

\* os.replace(tmp, path)
AtomicReplace(st, w) ==
    [st EXCEPT !.dest = st.files[st.tmp[w]], !.files[st.tmp[w]] = Absent,
               !.lastDoc = st.doc[w], !.pc[w] = "finally"]

\* finally: if tmp and os.path.exists(tmp): os.remove(tmp)
AtomicFinally(st, w) ==
    IF st.tmp[w] # NoTmp /\ Exists(st.files[st.tmp[w]])
    THEN [st EXCEPT !.files[st.tmp[w]] = Absent, !.pc[w] = "idle"]
    ELSE [st EXCEPT !.pc[w] = "idle"]

\* save_profile(mobile, data) up to the open
PlainBeginSave(st, w, data) ==
    [st EXCEPT !.pc[w] = "open", !.doc[w] = data]

\* load_profile(mobile) up to the open: the record read, with its defaults
PlainBeginLoad(st, w) ==
    [st EXCEPT !.pc[w] = "open",
               !.doc[w] = ProfileDefaults(
                   IF st.dest.kind = "json" THEN st.dest.doc ELSE EmptyDoc, MobA)]

\* open(p, "w"): the file is created or cut to length 0
PlainOpen(st, w) ==
    [st EXCEPT !.dest = Corrupt, !.pc[w] = "pdump"]

\* json.dump(data, f) and the close
PlainDump(st, w) ==
    [st EXCEPT !.dest = Json(st.doc[w]), !.pc[w] = "idle"]

\* the process is killed: no finally clause runs
Killed(st, w) ==
    [st EXCEPT !.pc[w] = "dead"]

WriteBegin(w, data) ==
    /\ wr.pc[w] = "idle"
    /\ wr' = AtomicBegin(wr, w, data)
    /\ UNCHANGED <<ui, now, fsVars, histVars, legacyMap, issued>>

WriteMkstemp(w) ==
    /\ wr.pc[w] = "mkstemp"
    /\ wr.next <= MaxTmp
    /\ wr' = AtomicMkstemp(wr, w)
    /\ UNCHANGED <<ui, now, fsVars, histVars, legacyMap, issued>>

WriteDump(w) ==
    /\ wr.pc[w] = "dump"
    /\ wr' = AtomicDump(wr, w)
    /\ UNCHANGED <<ui, now, fsVars, histVars, legacyMap, issued>>

WriteDumpFails(w) ==
    /\ wr.pc[w] = "dump"
    /\ wr' = AtomicDumpFails(wr, w)
    /\ UNCHANGED <<ui, now, fsVars, histVars, legacyMap, issued>>

WriteReplace(w) ==
    /\ wr.pc[w] = "replace"
    /\ wr' = AtomicReplace(wr, w)
    /\ UNCHANGED <<ui, now, fsVars, histVars, legacyMap, issued>>

WriteFinally(w) ==
    /\ wr.pc[w] = "finally"
    /\ wr' = AtomicFinally(wr, w)
    /\ UNCHANGED <<ui, now, fsVars, histVars, legacyMap, issued>>

SaveProfileBegin(w, data) ==
    /\ wr.pc[w] = "idle"
    /\ wr' = PlainBeginSave(wr, w, data)
    /\ UNCHANGED <<ui, now, fsVars, histVars, legacyMap, issued>>

LoadProfileBegin(w) ==
    /\ wr.pc[w] = "idle"
    /\ wr' = PlainBeginLoad(wr, w)
    /\ UNCHANGED <<ui, now, fsVars, histVars, legacyMap, issued>>

ProfileOpen(w) ==
    /\ wr.pc[w] = "open"
    /\ wr' = PlainOpen(wr, w)
    /\ UNCHANGED <<ui, now, fsVars, histVars, legacyMap, issued>>

ProfileDump(w) ==
    /\ wr.pc[w] = "pdump"
    /\ wr' = PlainDump(wr, w)
    /\ UNCHANGED <<ui, now, fsVars, histVars, legacyMap, issued>>

Kill(w) ==
    /\ wr.pc[w] \notin {"idle", "dead"}
    /\ wr' = Killed(wr, w)
    /\ UNCHANGED <<ui, now, fsVars, histVars, legacyMap, issued>>

(***************************************************************************)
(* The clock.                                                              *)
(***************************************************************************)
Tick(d) ==
    /\ now + d <= MaxTime
    /\ now' = now + d
    /\ trashNow' = [m \in Users |-> "none"]
    /\ UNCHANGED <<ui, dirs, auth, session, profile, uploads, histVars, wr, legacyMap, issued>>

(***************************************************************************)
(* AuthStore.__init__ and LocalStore.__init__ on an empty data directory,  *)
(* and PhotoApp before build().                                            *)
(***************************************************************************)
\* PhotoApp.__init__: profile_data = {}; the first screen is "login"
UiStart == [profile_data |-> EmptyDoc, screen |-> "login", calls |-> {}]

InitStore ==
    /\ now = 0
    /\ dirs = {}
    /\ auth = [m \in Users |-> Absent]
    /\ session = Absent
    /\ trashNow = [m \in Users |-> "none"]
    /\ profile = [m \in Users |-> Absent]
    /\ uploads = [m \in Users |-> NoUploads]
    /\ pinOf = [m \in Users |-> NoPin]
    /\ wrongRun = [m \in Users |-> 0]
    /\ wrongAt = [m \in Users |-> 0]
    /\ specRun = [m \in Users |-> 0]
    /\ fresh = [m \in Users |-> NotFresh]
    /\ sessBy = NoSession
    /\ issued = [m \in Users |-> [d \in MoreDateInputs |-> 0]]
    /\ ui = UiStart

Init == InitStore /\ wr = WriterIdle(Absent) /\ legacyMap = NoLegacy

(***************************************************************************)
(* PhotoApp of main.py: the handlers that call the two stores.  A handler  *)
(* is taken on the screen that shows its form or button; a callback it     *)
(* schedules with Clock.schedule_once runs as part of it.  ui.calls is the *)
(* set of mobiles the handler passed to load_profile, save_profile,        *)
(* add_upload or list_uploads_for_mobile.  No legacy auth/users.json and   *)
(* no legacy profile.json exist.                                           *)
(***************************************************************************)
\* build() of an app started on the data directory as it is, and the
\* gallery bootstrap it schedules
Build ==
    \E m \in {CurrentUserOp(session)} :
        IF m = NoMobile
        THEN /\ ui' = UiStart
             /\ UNCHANGED <<now, fsVars, histVars, wr, legacyMap, issued>>
        ELSE \E l \in {LoadProfileOp(profile, dirs, m)} :
                /\ ui' = [profile_data |-> l.ret, screen |-> "profile", calls |-> {m}]
                /\ profile' = l.profile
                /\ dirs' = l.dirs
                /\ UNCHANGED <<now, auth, session, trashNow, uploads, histVars, wr,
                               legacyMap, issued>>

\* auth_register: _is_valid_identifier, _is_valid_pin, the pin2 test, then
\* register, _set_active_user, _save_user_profile and change_screen("login")
AuthRegister(identifier, pin, pin2, name, newSalt) ==
    /\ ui.screen = "register"
    /\ newSalt \in SaltChoices(pin)
    /\ IF \/ Len(StripNonDigits(identifier)) # MobileLen
          \/ ~(Len(pin) >= PinMinLen /\ Len(pin) <= PinMaxLen
               /\ \A i \in 1..Len(pin) : IsDigit(pin[i]))
          \/ (pin2 # <<>> /\ pin # pin2)
       THEN /\ ui' = [ui EXCEPT !.calls = {}]
            /\ UNCHANGED <<now, fsVars, histVars, wr, legacyMap, issued>>
       ELSE \E mob \in {StripNonDigits(identifier)} :
            \E r \in {RegisterOp(auth, dirs, now, mob, pin, newSalt)} :
                IF r.result # "ok"
                THEN /\ auth' = r.auth
                     /\ dirs' = r.dirs
                     /\ ui' = [ui EXCEPT !.calls = {}]
                     /\ UNCHANGED <<now, session, trashNow, profile, uploads, histVars,
                                    wr, legacyMap, issued>>
                ELSE \E l \in {LoadProfileOp(profile, r.dirs, mob)} :
                     \E pd \in {Update(l.ret, IF name # "" THEN [name |-> name, mobile |-> mob]
                                              ELSE [mobile |-> mob])} :
                     \E sv \in {SaveProfileOp(l.profile, l.dirs, mob, pd)} :
                        /\ auth' = r.auth
                        /\ dirs' = sv.dirs
                        /\ profile' = sv.profile
                        /\ ui' = [profile_data |-> pd, screen |-> "login", calls |-> {mob}]
                        /\ pinOf' = [pinOf EXCEPT ![mob] = pin]
                        /\ wrongRun' = [wrongRun EXCEPT ![mob] = 0]
                        /\ specRun' = [specRun EXCEPT ![mob] = 0]
                        /\ fresh' = [fresh EXCEPT ![mob] =
                                        [by |-> "register", was |-> RecordClass(auth[mob], now),
                                         old |-> pinOf[mob]]]
                        /\ UNCHANGED <<now, session, trashNow, uploads, wrongAt, sessBy,
                                       wr, legacyMap, issued>>

\* auth_login: the two validators, then login, _set_active_user and
\* change_screen("profile"); wrong-PIN logins are explored while fewer than
\* cap of them are in a row
AuthLogin(identifier, pin, cap) ==
    /\ ui.screen = "login"
    /\ IF \/ Len(StripNonDigits(identifier)) # MobileLen
          \/ ~(Len(pin) >= PinMinLen /\ Len(pin) <= PinMaxLen
               /\ \A i \in 1..Len(pin) : IsDigit(pin[i]))
       THEN /\ ui' = [ui EXCEPT !.calls = {}]
            /\ UNCHANGED <<now, fsVars, histVars, wr, legacyMap, issued>>
       ELSE \E mob \in {StripNonDigits(identifier)} :
            \E r \in {LoginOp(auth, session, now, mob, pin)} :
                /\ r.result = "InvalidCredentialsError" => wrongRun[mob] < cap
                /\ auth' = r.auth
                /\ session' = r.session
                /\ IF r.result = "ok"
                   THEN \E l \in {LoadProfileOp(profile, dirs, mob)} :
                           /\ profile' = l.profile
                           /\ dirs' = l.dirs
                           /\ ui' = [profile_data |-> l.ret, screen |-> "profile",
                                     calls |-> {mob}]
                   ELSE /\ ui' = [ui EXCEPT !.calls = {}]
                        /\ UNCHANGED <<profile, dirs>>
                /\ CASE r.result = "ok" ->
                          /\ wrongRun' = [wrongRun EXCEPT ![mob] = 0]
                          /\ specRun' = [specRun EXCEPT ![mob] = 0]
                          /\ fresh' = [fresh EXCEPT ![mob] = NotFresh]
                          /\ sessBy' = [op |-> "login", replaced |-> CurrentUserOp(session)]
                          /\ UNCHANGED wrongAt
                     [] r.result = "InvalidCredentialsError" ->
                          /\ wrongRun' = [wrongRun EXCEPT ![mob] = @ + 1]
                          /\ wrongAt' = [wrongAt EXCEPT ![mob] = now]
                          /\ specRun' = [specRun EXCEPT ![mob] =
                                IF @ >= ThrottleLimit /\ now - wrongAt[mob] >= ThrottleWindow
                                THEN 1 ELSE @ + 1]
                          /\ fresh' = [fresh EXCEPT ![mob] = NotFresh]
                          /\ UNCHANGED sessBy
                     [] OTHER -> UNCHANGED <<wrongRun, wrongAt, specRun, fresh, sessBy>>
                /\ UNCHANGED <<now, trashNow, uploads, pinOf, wr, legacyMap, issued>>

\* auth_logout: logout, profile_data = {}, change_screen("login")
AuthLogout ==
    /\ ui.screen \notin {"login", "register"}
    /\ session' = LogoutOp(session)
    /\ sessBy' = IF Exists(session) THEN [op |-> "logout", replaced |-> NoMobile] ELSE sessBy
    /\ ui' = [profile_data |-> EmptyDoc, screen |-> "login", calls |-> {}]
    /\ UNCHANGED <<now, dirs, auth, trashNow, profile, uploads, pinOf, wrongRun, wrongAt,
                   specRun, fresh, wr, legacyMap, issued>>

\* change_screen(name): without a current user every screen but "login"
\* and "register" becomes "login"; "uploads" schedules
\* refresh_uploads_for_active_user, which lists the uploads of
\* profile_data["mobile"] when that is not empty
ChangeScreen(name) ==
    \E target \in {IF CurrentUserOp(session) = NoMobile /\ name \notin {"login", "register"}
                   THEN "login" ELSE name} :
        /\ ui' = [ui EXCEPT !.screen = target,
                            !.calls = IF target = "uploads"
                                         /\ Get(ui.profile_data, "mobile", <<>>) # <<>>
                                      THEN {ui.profile_data.mobile} ELSE {}]
        /\ UNCHANGED <<now, fsVars, histVars, wr, legacyMap, issued>>

\* save_profile of PhotoApp and its _do_save: p is what
\* _collect_profile_from_ui reads from the form (its email is well formed)
UiSaveProfile(p) ==
    /\ ui.screen = "profile"
    /\ IF p.name = "" \/ (p.mobile # <<>> /\ ~MOBILE_RE(p.mobile))
       THEN /\ ui' = [ui EXCEPT !.calls = {}]
            /\ UNCHANGED <<now, fsVars, histVars, wr, legacyMap, issued>>
       ELSE \E pd \in {Update(ui.profile_data, p)} :
            \E mobile \in {Get(pd, "mobile", <<>>)} :
                IF ~MOBILE_RE(mobile)
                THEN /\ ui' = [ui EXCEPT !.profile_data = pd, !.calls = {}]
                     /\ UNCHANGED <<now, fsVars, histVars, wr, legacyMap, issued>>
                ELSE \E sv \in {SaveProfileOp(profile, dirs, mobile, pd)} :
                        /\ profile' = sv.profile
                        /\ dirs' = sv.dirs
                        /\ ui' = [ui EXCEPT !.profile_data = pd, !.calls = {mobile}]
                        /\ UNCHANGED <<now, auth, session, trashNow, uploads, histVars,
                                       wr, legacyMap, issued>>

\* save_current_to_gallery and its _do_save: src is _last_capture_path;
\* add_upload for profile_data["mobile"], the sidecar "<path>.json" written
\* beside the copy, then change_screen("uploads"); explored while the
\* number taken is at most cap
SaveCurrentToGallery(src, dateKey, cap) ==
    /\ ui.screen = "camera"
    /\ \E mobile \in {Get(ui.profile_data, "mobile", <<>>)} :
        IF ~src.isfile \/ ~MOBILE_RE(mobile)
        THEN /\ ui' = [ui EXCEPT !.calls = {}]
             /\ UNCHANGED <<now, fsVars, histVars, wr, legacyMap, issued>>
        ELSE \E r \in {AddUploadOp(uploads, dirs, mobile, src, dateKey)},
                digit \in {NextDigitForDay(uploads[mobile].files, mobile, dateKey)} :
                /\ digit <= cap
                /\ uploads' = [r.uploads EXCEPT ![mobile].files =
                                  @ \cup {r.filename \o <<".", "j", "s", "o", "n">>}]
                /\ dirs' = r.dirs
                /\ issued' = [issued EXCEPT ![mobile][dateKey] = IF digit > @ THEN digit ELSE @]
                /\ ui' = [ui EXCEPT !.screen = IF CurrentUserOp(session) = NoMobile
                                               THEN "login" ELSE "uploads",
                                    !.calls = {mobile}]
                /\ UNCHANGED <<now, auth, session, trashNow, profile, histVars, wr, legacyMap>>

\* Spec: one account, every AuthStore operation, the clock
Next ==
    \/ \E mobile \in AccountInputs, pin \in PinInputs, s \in AllSalts : Register(mobile, pin, s)
    \/ \E mobile \in AccountInputs, pin \in PinInputs : Login(mobile, pin, MaxFails)
    \/ \E mobile \in AccountInputs, pin \in PinInputs : VerifyPin(mobile, pin)
    \/ \E mobile \in AccountInputs, old \in PinInputs, new \in PinInputs, s \in AllSalts :
          ChangePin(mobile, old, new, s)
    \/ \E mobile \in AccountInputs, archive \in BOOLEAN : DeleteUser(mobile, archive)
    \/ \E mobile \in AccountInputs : SetCurrentUser(mobile)
    \/ \E mobile \in AccountInputs : UserExists(mobile)
    \/ Logout
    \/ CurrentUser
    \/ ListUsers
    \/ \E m \in Users : CorruptAuth(m)
    \/ CorruptSession
    \/ \E d \in TickSteps : Tick(d)

Spec == Init /\ [][Next]_vars

\* SpecSession: two accounts, every AuthStore operation
NextSession ==
    \/ \E mobile \in SessionInputs : Register(mobile, Pin1, "s1")
    \/ \E mobile \in SessionInputs, pin \in {Pin1, Pin2} : Login(mobile, pin, MaxSessionFails)
    \/ \E mobile \in SessionInputs, pin \in {Pin1, Pin2} : VerifyPin(mobile, pin)
    \/ \E mobile \in SessionInputs, old \in {Pin1, Pin2} : ChangePin(mobile, old, Pin1, "s1")
    \/ \E mobile \in SessionInputs, archive \in BOOLEAN : DeleteUser(mobile, archive)
    \/ \E mobile \in SessionInputs : SetCurrentUser(mobile)
    \/ \E mobile \in SessionInputs : UserExists(mobile)
    \/ Logout
    \/ CurrentUser
    \/ ListUsers
    \/ \E m \in Users : CorruptAuth(m)
    \/ CorruptSession

SpecSession == Init /\ [][NextSession]_vars

\* SpecApp: the operations of both stores; MobA is the account whose PIN,
\* profile and uploads change, MobB a second account to sign in to and delete
NextApp ==
    \/ \E mobile \in SessionInputs : Register(mobile, Pin1, "s1")
    \/ \E mobile \in SessionInputs, pin \in {Pin1, Pin2} : Login(mobile, pin, MaxSessionFails)
    \/ \E mobile \in AccountInputs, pin \in {Pin1, Pin2} : VerifyPin(mobile, pin)
    \/ \E mobile \in AccountInputs, old \in {Pin1, Pin2} : ChangePin(mobile, old, Pin1, "s1")
    \/ \E mobile \in SessionInputs, archive \in BOOLEAN : DeleteUser(mobile, archive)
    \/ \E mobile \in SessionInputs : SetCurrentUser(mobile)
    \/ \E mobile \in SessionInputs : UserExists(mobile)
    \/ Logout
    \/ CurrentUser
    \/ ListUsers
    \/ \E mobile \in AccountInputs : LoadProfile(mobile)
    \/ \E mobile \in AccountInputs, data \in ProfileInputs : SaveProfile(mobile, data)
    \/ \E mobile \in AccountInputs, src \in JpgSourceInputs, dateKey \in DateInputs :
          AddUpload(mobile, src, dateKey, MaxSeq)
    \/ \E mobile \in AccountInputs : ListUploads(mobile)

SpecApp == Init /\ [][NextApp]_vars

\* SpecMigrate: the store constructed again over its data directory, with a
\* legacy map to migrate, between the AuthStore operations; MobA is
\* registered and signed in to, MobB comes from the legacy map
NextMigrate ==
    \/ \E legacy \in {legacyMap.map} : Startup(legacy)
    \/ \E mobile \in AccountInputs : Register(mobile, Pin1, "s1")
    \/ \E mobile \in SessionInputs, pin \in PinInputs : Login(mobile, pin, MaxFails)
    \/ \E mobile \in SessionInputs, pin \in PinInputs : VerifyPin(mobile, pin)
    \/ \E mobile \in SessionInputs, old \in {Pin1, Pin2} : ChangePin(mobile, old, Pin1, "s1")
    \/ \E mobile \in SessionInputs, archive \in BOOLEAN : DeleteUser(mobile, archive)
    \/ \E mobile \in SessionInputs : SetCurrentUser(mobile)
    \/ \E mobile \in SessionInputs : UserExists(mobile)
    \/ Logout
    \/ CurrentUser
    \/ ListUsers
    \/ \E m \in Users : CorruptAuth(m)

\* a data directory that holds a legacy auth/users.json
InitMigrate ==
    /\ InitStore
    /\ wr = WriterIdle(Absent)
    /\ legacyMap \in {[map |-> legacy, migrated |-> FALSE] : legacy \in LegacyInputs}

SpecMigrate == InitMigrate /\ [][NextMigrate]_vars

\* SpecProfile: the profile operations on both accounts with every mobile
\* input, profile.json damaged from outside, and the account removed
NextProfile ==
    \/ \E mobile \in MobileInputs : LoadProfile(mobile)
    \/ \E mobile \in MobileInputs, data \in MoreProfileInputs : SaveProfile(mobile, data)
    \/ \E m \in Users : CorruptProfile(m)
    \/ \E mobile \in MobileInputs, archive \in BOOLEAN : DeleteUser(mobile, archive)

SpecProfile == Init /\ [][NextProfile]_vars

\* SpecUploads: add_upload and the listing on MobA with every source on one
\* date, one upload on the next date into the empty directory, one upload
\* of MobB, files of MobA removed from outside and a file of MobB put into
\* MobA's directory
NextUploads ==
    \/ \E mobile \in {MobA, MobAFormatted, MobShort}, src \in SourceInputs, dateKey \in DateInputs :
          AddUpload(mobile, src, dateKey, MaxUploads)
    \/ \E src \in JpgSourceInputs, dateKey \in MoreDateInputs \ DateInputs :
          AddUpload(MobA, src, dateKey, 1)
    \/ \E src \in JpgSourceInputs, dateKey \in DateInputs : AddUpload(MobB, src, dateKey, 1)
    \/ \E f \in uploads[MobA].files : RemoveUpload(MobA, f)
    \/ \E name \in ForeignNames : PlaceFile(MobA, name)
    \/ \E mobile \in MobileInputs : ListUploads(mobile)

SpecUploads == Init /\ [][NextUploads]_vars

\* SpecListing: add_upload on MobA on two dates while its directory holds at
\* most one file, files removed from outside, and the listing: the sequence
\* numbers grow past 9
NextListing ==
    \/ \E src \in JpgSourceInputs, dateKey \in MoreDateInputs :
          /\ Cardinality(uploads[MobA].files) < 2
          /\ AddUpload(MobA, src, dateKey, MaxNumbered)
    \/ \E f \in uploads[MobA].files : RemoveUpload(MobA, f)
    \/ ListUploads(MobA)

SpecListing == Init /\ [][NextListing]_vars

\* SpecUI: the handlers of PhotoApp on two accounts, from a first start on
\* an empty data directory; the profile form names MobB or no mobile, the
\* captures are .jpg files
NextUI ==
    \/ Build
    \/ \E identifier \in SessionInputs, pin \in {Pin1, PinShort}, pin2 \in {<<>>, Pin1},
          name \in {"", "Asha"}, s \in {"s1", ""} :
          AuthRegister(identifier, pin, pin2, name, s)
    \/ \E identifier \in SessionInputs, pin \in {Pin1, Pin2} :
          AuthLogin(identifier, pin, MaxSessionFails)
    \/ AuthLogout
    \/ \E name \in {"login", "register", "profile", "camera", "uploads"} : ChangeScreen(name)
    \/ \E mob \in {MobB, <<>>}, name \in {"", "Asha"} :
          UiSaveProfile([name |-> name, mobile |-> mob, email |-> "a@x.in", state |-> "KA",
                         district |-> "Udupi", address |-> "12 Car St"])
    \/ \E src \in JpgSourceInputs, dateKey \in DateInputs :
          SaveCurrentToGallery(src, dateKey, MaxSeq)

SpecUI == Init /\ [][NextUI]_vars

\* SpecWriter: two processes run _atomic_write_json on one path, each step
\* on its own, and either may be killed at any step
InitWriter ==
    /\ InitStore
    /\ wr \in {WriterIdle(Absent), WriterIdle(Json(PreviousDoc))}
    /\ legacyMap = NoLegacy

NextWriter ==
    \/ \E w \in Writers, data \in WriterDocs : WriteBegin(w, data)
    \/ \E w \in Writers : WriteMkstemp(w)
    \/ \E w \in Writers : WriteDump(w)
    \/ \E w \in Writers : WriteDumpFails(w)
    \/ \E w \in Writers : WriteReplace(w)
    \/ \E w \in Writers : WriteFinally(w)
    \/ \E w \in Writers : Kill(w)

SpecWriter == InitWriter /\ [][NextWriter]_vars

\* SpecProfileWrite: two processes run save_profile / load_profile on one
\* profile.json, each step on its own, and either may be killed
InitProfileWrite ==
    /\ InitStore
    /\ wr \in {WriterIdle(Absent)} \cup {WriterIdle(Json(data)) : data \in ProfileInputs}
    /\ legacyMap = NoLegacy

NextProfileWrite ==
    \/ \E w \in Writers, data \in ProfileInputs : SaveProfileBegin(w, data)
    \/ \E w \in Writers : LoadProfileBegin(w)
    \/ \E w \in Writers : ProfileOpen(w)
    \/ \E w \in Writers : ProfileDump(w)
    \/ \E w \in Writers : Kill(w)

SpecProfileWrite == InitProfileWrite /\ [][NextProfileWrite]_vars

(***************************************************************************)
(* Properties.  The outcome of a call in a state is the value of its       *)
(* operator there: LoginOp(auth, session, now, m, p) is what login(m, p)   *)
(* returns and writes when it is called in that state.                     *)
(***************************************************************************)
HasThrottleFields(f) ==
    f.kind = "json" /\ ({"failed_attempts", "last_failed_at"} \cap DOMAIN f.doc # {})

LoginNow(m, pin) == LoginOp(auth, session, now, m, pin)

\* C1: after a successful register(m, p), whatever record it replaced, and
\* as long as no later call has written the record, login(m, p) succeeds
\* and returns the mobile m.
C1_RegisterThenLogin ==
    \A m \in Users :
        fresh[m].by = "register" =>
            /\ LoginNow(m, pinOf[m]).result = "ok"
            /\ LoginNow(m, pinOf[m]).ret = m

\* a register that replaced a corrupt record, and one that replaced the
\* record of a throttled account
C1_Witness ==
    /\ fresh[MobA].by = "register"
    /\ fresh[MobA].was \in {"corrupt", "throttled"}
    /\ now > 0
    /\ LoginNow(MobA, pinOf[MobA]).result = "ok"

\* C2: once five wrong-PIN logins of m were rejected in a row, every login
\* of m made less than 300 seconds after the last of them is rejected with
\* ThrottledError, whatever the PIN.
C2_ThrottledWithinWindow ==
    \A m \in Users :
        (wrongRun[m] >= ThrottleLimit /\ now - wrongAt[m] < ThrottleWindow) =>
            \A pin \in PinInputs : LoginNow(m, pin).result = "ThrottledError"

\* 299 seconds after the fifth failure the correct PIN is rejected
C2_Witness ==
    /\ wrongRun[MobA] = ThrottleLimit
    /\ now - wrongAt[MobA] = ThrottleWindow - 1
    /\ pinOf[MobA] # NoPin
    /\ LoginNow(MobA, pinOf[MobA]).result = "ThrottledError"

\* C3: when 300 seconds have passed since the last failure of a throttled
\* account, login with the correct PIN succeeds and the record it writes
\* has neither failed_attempts nor last_failed_at.
C3_LoginAfterWindow ==
    \A m \in Users :
        (wrongRun[m] >= ThrottleLimit /\ now - wrongAt[m] >= ThrottleWindow) =>
            LET r == LoginNow(m, pinOf[m])
            IN  /\ r.result = "ok"
                /\ ~HasThrottleFields(r.auth[m])

C3_Witness ==
    /\ wrongRun[MobA] >= ThrottleLimit
    /\ now - wrongAt[MobA] = ThrottleWindow
    /\ HasThrottleFields(auth[MobA])
    /\ LoginNow(MobA, pinOf[MobA]).result = "ok"

\* C4: login(m, _) is rejected with ThrottledError only if at least five
\* wrong-PIN logins of m were rejected since the last successful login(m)
\* or register(m).
C4_ThrottledOnlyAfterFive ==
    \A m \in Users, pin \in PinInputs :
        LoginNow(m, pin).result = "ThrottledError" => wrongRun[m] >= ThrottleLimit

\* four failures in a row on a record that a successful login rewrote after
\* its creation, and the next wrong PIN is still answered InvalidCredentials
C4_Witness ==
    /\ wrongRun[MobA] = ThrottleLimit - 1
    /\ auth[MobA].kind = "json"
    /\ auth[MobA].doc.updated_at > auth[MobA].doc.created_at
    /\ fresh[MobA].by = "-"
    /\ \E pin \in PinInputs : LoginNow(MobA, pin).result = "InvalidCredentialsError"

\* C5: login(m, _) is rejected with ThrottledError only if the two-state
\* machine of the specification is in Throttled, that is after five
\* failures counted from the last success, register or expiry of the window.
C5_ThrottledOnlyAfterFiveSinceExpiry ==
    \A m \in Users, pin \in PinInputs :
        LoginNow(m, pin).result = "ThrottledError" => specRun[m] >= ThrottleLimit

\* C6: register on an existing account replaces the PIN and clears the
\* throttle fields: afterwards login with the new PIN succeeds and login
\* with the previous PIN, when it differs, fails with InvalidCredentialsError.
C6_RegisterReplacesPin ==
    \A m \in Users :
        fresh[m].by = "register" =>
            /\ ~HasThrottleFields(auth[m])
            /\ LoginNow(m, pinOf[m]).result = "ok"
            /\ fresh[m].old \notin {NoPin, pinOf[m]} =>
                   LoginNow(m, fresh[m].old).result = "InvalidCredentialsError"

C6_Witness ==
    /\ fresh[MobA].by = "register"
    /\ fresh[MobA].was = "throttled"
    /\ fresh[MobA].old \notin {NoPin, pinOf[MobA]}
    /\ LoginNow(MobA, fresh[MobA].old).result = "InvalidCredentialsError"

\* C7: change_pin with a well-formed old PIN that is not the PIN of the
\* account fails with InvalidCredentialsError, and a change_pin that fails
\* leaves every credential record as it was.
C7_ChangePinWrongOld ==
    \A m \in Users, old \in PinInputs, new \in PinInputs, s \in AllSalts :
        LET r == ChangePinOp(auth, now, m, old, new, s)
        IN  /\ (pinOf[m] # NoPin /\ PinOk(old) /\ old # pinOf[m]) =>
                   r.result = "InvalidCredentialsError"
            /\ r.result # "ok" => r.auth = auth

\* a wrong old PIN on an account whose record carries throttle fields
C7_Witness ==
    /\ pinOf[MobA] # NoPin
    /\ HasThrottleFields(auth[MobA])
    /\ \E old \in PinInputs :
          /\ PinOk(old) /\ old # pinOf[MobA]
          /\ ChangePinOp(auth, now, MobA, old, Pin1, "s1").result = "InvalidCredentialsError"

\* C8 as stated: after a successful change_pin, for every pair of old and
\* new PIN, the new PIN authenticates (verify_pin and login) and the old
\* one does not.
C8_Original ==
    \A m \in Users :
        fresh[m].by = "change_pin" =>
            /\ VerifyPinOp(auth, m, pinOf[m]) = "true"
            /\ LoginNow(m, pinOf[m]).result = "ok"
            /\ VerifyPinOp(auth, m, fresh[m].old) = "false"
            /\ LoginNow(m, fresh[m].old).result # "ok"

\* C8 amended: change_pin with the correct old PIN and a well-formed new
\* PIN succeeds; afterwards verify_pin accepts the new PIN, login with it
\* succeeds unless the account is throttled (then ThrottledError), and when
\* the two PINs differ verify_pin and login reject the old one.
C8_ChangePin ==
    \A m \in Users :
        /\ pinOf[m] # NoPin =>
              \A new \in PinInputs, s \in Salts :
                  PinOk(new) => ChangePinOp(auth, now, m, pinOf[m], new, s).result = "ok"
        /\ fresh[m].by = "change_pin" =>
              /\ VerifyPinOp(auth, m, pinOf[m]) = "true"
              /\ LoginNow(m, pinOf[m]).result =
                    IF RecordClass(auth[m], now) = "throttled" THEN "ThrottledError" ELSE "ok"
              /\ fresh[m].old # pinOf[m] =>
                    /\ VerifyPinOp(auth, m, fresh[m].old) = "false"
                    /\ LoginNow(m, fresh[m].old).result # "ok"

C8_Witness ==
    /\ fresh[MobA].by = "change_pin"
    /\ fresh[MobA].old # pinOf[MobA]
    /\ VerifyPinOp(auth, MobA, fresh[MobA].old) = "false"
    /\ LoginNow(MobA, pinOf[MobA]).result = "ok"

\* C9: session.json holds at most one session; a successful login(m, p)
\* writes a record that names m alone, whatever session existed before, so
\* that current_user() then returns m.
C9_SingleSession ==
    /\ \A m \in Users, pin \in PinInputs :
          LET r == LoginNow(m, pin)
          IN  r.result = "ok" =>
                 /\ r.session = Json([mobile |-> m, login_at |-> now])
                 /\ CurrentUserOp(r.session) = m
    /\ sessBy.op = "login" =>
          /\ CurrentUserOp(session) \in Users
          /\ session = Json([mobile |-> CurrentUserOp(session), login_at |-> session.doc.login_at])

\* MobB logged in over the session of MobA
C9_Witness ==
    /\ sessBy.op = "login"
    /\ sessBy.replaced = MobA
    /\ CurrentUserOp(session) = MobB

\* C10: the session record changes only in a step that is a successful
\* login or set_current_user (which write it), a logout, or a delete_user of
\* the mobile the session names (which remove it); register, a failed login,
\* verify_pin, change_pin, user_exists, list_users, a delete_user of another
\* mobile and every LocalStore operation leave it as it was.
C10_SessionLifecycle ==
    [][session' # session =>
        \/ \E m \in SessionInputs, pin \in {Pin1, Pin2} :
              /\ Login(m, pin, MaxSessionFails)
              /\ LoginNow(m, pin).result = "ok"
              /\ session'.kind = "json"
        \/ \E m \in SessionInputs :
              /\ SetCurrentUser(m)
              /\ SetCurrentUserOp(auth, session, now, m).result = "ok"
              /\ session'.kind = "json"
        \/ Logout /\ session' = Absent
        \/ \E m \in SessionInputs, archive \in BOOLEAN :
              /\ DeleteUser(m, archive)
              /\ CurrentUserOp(session) = NormalizeMobile(m)
              /\ session' = Absent]_vars

\* the session login wrote for MobA is still there after a failed login of
\* MobA, with a profile and an upload of MobA stored and MobB deleted
C10_Witness ==
    /\ sessBy.op = "login"
    /\ CurrentUserOp(session) = MobA
    /\ wrongRun[MobA] = 1
    /\ Exists(profile[MobA])
    /\ uploads[MobA].files # {}
    /\ ~Exists(auth[MobB])
    /\ trashNow[MobB] # "none"

\* C11: logout always completes and leaves no session file, whether the
\* file was absent, a session or unparsable, so a second logout changes
\* nothing; it writes no credential record; and from a logout that removed a
\* session until the next successful login or set_current_user,
\* current_user() returns None.
C11_Logout ==
    /\ [](/\ LogoutOp(session) = Absent
          /\ LogoutOp(LogoutOp(session)) = LogoutOp(session)
          /\ CurrentUserOp(LogoutOp(session)) = NoMobile
          /\ sessBy.op = "logout" =>
                ~Exists(session) /\ CurrentUserOp(session) = NoMobile)
    /\ [][Logout => (session' = Absent /\ auth' = auth)]_vars

\* a logout removed a session and an account was registered afterwards or
\* before; nobody is signed in
C11_Witness ==
    /\ sessBy.op = "logout"
    /\ auth[MobA].kind = "json"
    /\ auth[MobB].kind = "json"
    /\ CurrentUserOp(session) = NoMobile

DeleteUserNow(m, archive) ==
    DeleteUserOp(auth, dirs, session, trashNow, profile, uploads, m, archive)

\* C12: delete_user(m) called on an existing user leaves nobody signed in
\* when m was the current user, and leaves current_user() as it was when
\* another user, or nobody, was current.
C12_DeleteClearsOwnSession ==
    \A m \in Users, archive \in BOOLEAN :
        UserExistsOp(auth, m) =>
            CurrentUserOp(DeleteUserNow(m, archive).session) =
                IF CurrentUserOp(session) = m THEN NoMobile ELSE CurrentUserOp(session)

\* m is not a user for the store: user_exists(m) is False, list_users()
\* does not name m and login(m, pin) is rejected with NotFoundError
NotAUser(a, d, s, m) ==
    /\ ~UserExistsOp(a, m)
    /\ \A i \in 1..Len(ListUsersOp(d, a)) : ListUsersOp(d, a)[i] # m
    /\ \A pin \in PinInputs : LoginOp(a, s, now, m, pin).result = "NotFoundError"

\* C13: delete_user(m) returns False and changes nothing when users/<m>/
\* does not exist; when it returns True, with or without archive, m is not a
\* user for the store, and stays so until register(m) succeeds again.
C13_DeleteUser ==
    \A m \in Users :
        /\ \A archive \in BOOLEAN :
              LET r == DeleteUserNow(m, archive) IN
              /\ m \notin dirs =>
                    r = [result |-> "false", auth |-> auth, dirs |-> dirs,
                         session |-> session, trashNow |-> trashNow,
                         profile |-> profile, uploads |-> uploads]
              /\ r.result = "true" => NotAUser(r.auth, r.dirs, r.session, m)
        /\ (pinOf[m] = NoPin /\ auth[m] # Corrupt) => NotAUser(auth, dirs, session, m)

\* MobA was archived and LocalStore made its directory again, without a
\* credential record; MobB has no directory
C13_Witness ==
    /\ trashNow[MobA] # "none"
    /\ MobA \in dirs
    /\ pinOf[MobA] = NoPin
    /\ NotAUser(auth, dirs, session, MobA)
    /\ DeleteUserNow(MobA, FALSE).result = "true"
    /\ DeleteUserNow(MobB, TRUE).result = "false"

\* login would answer UninitializedError: the record parses and lacks
\* pin_salt or pin_hash
Uninitialized(f) ==
    f.kind = "json"
        /\ (Get(f.doc, "pin_salt", "") = "" \/ Get(f.doc, "pin_hash", NoHash) = NoHash)

\* C14: set_current_user(m) is rejected with NotFoundError and leaves
\* session.json as it was when m has no auth.json; when m has one, whatever
\* it holds (throttled, uninitialized, unparsable), it succeeds without a
\* PIN and current_user() then returns m.  The call writes session.json only.
C14_SetCurrentUser ==
    \A m \in Users :
        LET r == SetCurrentUserOp(auth, session, now, m) IN
        /\ ~Exists(auth[m]) => (r.result = "NotFoundError" /\ r.session = session)
        /\ Exists(auth[m]) =>
              /\ r.result = "ok"
              /\ r.ret = m
              /\ CurrentUserOp(r.session) = m

\* MobA is throttled, MobB is uninitialized, and the session was switched
\* from one to the other
C14_Witness ==
    /\ RecordClass(auth[MobA], now) = "throttled"
    /\ Uninitialized(auth[MobB])
    /\ sessBy.op = "set_current_user"
    /\ sessBy.replaced = MobA
    /\ CurrentUserOp(session) = MobB
    /\ SetCurrentUserOp(auth, session, now, MobA).result = "ok"

\* C15: verify_pin(m, pin) returns True exactly when pin is the PIN the
\* stored salt and hash were made from, on a throttled account too; and
\* calls of verify_pin leave the record alone: failed_attempts counts the
\* wrong-PIN logins, whatever verify_pin was asked in between.
C15_VerifyPin ==
    \A m \in Users :
        pinOf[m] # NoPin =>
            /\ \A pin \in PinInputs :
                  (VerifyPinOp(auth, m, pin) = "true") <=> (pin = pinOf[m])
            /\ auth[m].kind = "json"
            /\ Get(auth[m].doc, "failed_attempts", 0) = wrongRun[m]
            /\ auth[m].doc.pin_hash = Pbkdf2(pinOf[m], auth[m].doc.pin_salt)

\* on a throttled account with the salt of the second registration,
\* verify_pin accepts the PIN and rejects another
C15_Witness ==
    /\ RecordClass(auth[MobA], now) = "throttled"
    /\ auth[MobA].doc.pin_salt = "s2"
    /\ VerifyPinOp(auth, MobA, pinOf[MobA]) = "true"
    /\ \E pin \in PinInputs : VerifyPinOp(auth, MobA, pin) = "false"
    /\ LoginNow(MobA, pinOf[MobA]).result = "ThrottledError"

\* C16: for every mobile, PIN and stored state, verify_pin returns True or
\* False, user_exists returns True or False and current_user returns a user
\* or None: none of them raises.
C16_FailSoft ==
    /\ \A mobile \in MobileInputs, pin \in PinInputs :
          VerifyPinOp(auth, mobile, pin) \in {"true", "false"}
    /\ \A mobile \in MobileInputs : UserExistsOp(auth, mobile) \in BOOLEAN
    /\ CurrentUserOp(session) \in Users \cup {NoMobile}

C18_AtomicWriteCrashSafe ==
    /\ [](wr.dest.kind # "corrupt")
    /\ [][wr'.dest # wr.dest =>
            \E w \in Writers :
                /\ wr.pc[w] = "replace" /\ wr'.pc[w] = "finally"
                /\ wr.files[wr.tmp[w]] = Json(wr.doc[w])
                /\ wr'.dest = Json(wr.doc[w])]_vars

\* a writer was killed after it wrote its temporary file and before the
\* rename, and the path still holds the previous document
C18_Witness ==
    \E w \in Writers :
        /\ wr.pc[w] = "dead"
        /\ wr.tmp[w] # NoTmp
        /\ wr.files[wr.tmp[w]] = Json(wr.doc[w])
        /\ wr.doc[w] # PreviousDoc
        /\ wr.dest = Json(PreviousDoc)

\* C19: once a process has been killed in the middle of save_profile or of
\* the write of load_profile, and no write is in progress, profile.json
\* is a complete record (or absent), never empty or cut short.
C19_ProfileWriteCrashSafe ==
    ((\E w \in Writers : wr.pc[w] = "dead")
     /\ \A w \in Writers : wr.pc[w] \in {"idle", "dead"})
        => wr.dest.kind # "corrupt"

\* C20: with two writers on one path and their steps interleaved in every
\* way, two writers that hold a temporary file hold different ones; the
\* path holds the whole document of the writer whose rename was the last
\* one (before the first rename, what it held at the start), never a mixture;
\* and when no writer is inside the call and none was killed, no temporary
\* file is left.
C20_TwoWriters ==
    /\ \A w1 \in Writers, w2 \in Writers :
          (w1 # w2 /\ wr.pc[w1] \in {"dump", "replace"} /\ wr.pc[w2] \in {"dump", "replace"})
              => wr.tmp[w1] # wr.tmp[w2]
    /\ IF wr.lastDoc = EmptyDoc
       THEN wr.dest \in {Absent, Json(PreviousDoc)}
       ELSE wr.dest = Json(wr.lastDoc) /\ wr.lastDoc \in WriterDocs
    /\ (\A w \in Writers : wr.pc[w] = "idle")
          => \A n \in DOMAIN wr.files : wr.files[n] = Absent

\* writer 1 has renamed while writer 2, with another document, holds its
\* own complete temporary file and is about to rename
C20_Witness ==
    /\ wr.pc[1] = "finally" /\ wr.pc[2] = "replace"
    /\ wr.doc[1] # wr.doc[2]
    /\ wr.tmp[1] # wr.tmp[2]
    /\ wr.files[wr.tmp[2]] = Json(wr.doc[2])
    /\ wr.dest = Json(wr.doc[1])

\* C21: a construction of AuthStore that finds the legacy map again, after
\* an earlier construction has migrated it, leaves every per-user
\* credential record that exists and parses as it was just before that
\* construction.
C21_MigrationRepeatable ==
    [][(legacyMap.migrated /\ \E legacy \in {legacyMap.map} : Startup(legacy))
          => \A m \in Users : auth[m].kind = "json" => auth'[m] = auth[m]]_vars

\* C22: normalizing "+91 98765-43210" yields "9876543210" and normalizing
\* "12345" fails, in both stores; and in every state an input that carries
\* the digits of an account with separators or a +91 prefix addresses that
\* account: register, login and user_exists answer as for "9876543210".
C22_Normalization ==
    /\ NormalizeMobile(MobPlus91) = MobA /\ NormMobile(MobPlus91) = MobA
    /\ NormalizeMobile(MobShort) = NoMobile /\ NormMobile(MobShort) = NoMobile
    /\ \A x \in {MobAFormatted, MobPlus91} :
          /\ RegisterOp(auth, dirs, now, x, Pin1, "s1")
                = RegisterOp(auth, dirs, now, MobA, Pin1, "s1")
          /\ \A pin \in PinInputs : LoginNow(x, pin) = LoginNow(MobA, pin)
          /\ UserExistsOp(auth, x) = UserExistsOp(auth, MobA)

\* the six fixed keys of a profile record
FixedKeys == {"mobile", "name", "email", "state", "district", "address"}

\* C23: in every state, for every mobile input the store accepts and every
\* record data, save_profile(m, data) followed by load_profile(m) returns a
\* record that has every key of data with the saved value, and every fixed
\* key that data lacks with its default: the normalized mobile for
\* "mobile", the empty string for the others.
C23_ProfileRoundTrip ==
    \A mobile \in MobileInputs, data \in MoreProfileInputs :
        LET s == SaveProfileOp(profile, dirs, mobile, data)
            l == LoadProfileOp(s.profile, s.dirs, mobile)
        IN  IF NormMobile(mobile) = NoMobile
            THEN s.result = "ValidationError" /\ l.result = "ValidationError"
            ELSE /\ s.result = "ok" /\ l.result = "ok"
                 /\ DOMAIN l.ret = DOMAIN data \cup FixedKeys
                 /\ \A k \in DOMAIN data : l.ret[k] = data[k]
                 /\ \A k \in FixedKeys \ DOMAIN data :
                       l.ret[k] = IF k = "mobile" THEN NormMobile(mobile) ELSE ""

\* a record with an extension key and without five of the fixed keys has
\* been saved for MobA and read back: the file holds the record completed
C23_Witness ==
    /\ profile[MobA].kind = "json"
    /\ DOMAIN profile[MobA].doc = FixedKeys \cup {"nickname"}
    /\ profile[MobA].doc.nickname = "ash"
    /\ profile[MobA].doc.name = "Asha"
    /\ profile[MobA].doc.email = ""

\* C24: in every state, whatever record is stored for m, save_profile(m, d2)
\* leaves profile.json of m holding d2 alone, so that load_profile(m) then
\* returns the keys of d2 and the fixed keys only, each fixed key d2 lacks
\* with its default; and the profile of every other mobile is untouched.
C24_SaveOverwrites ==
    \A mobile \in {MobA, MobAFormatted, MobB}, d2 \in MoreProfileInputs :
        LET mob == NormMobile(mobile)
            s == SaveProfileOp(profile, dirs, mobile, d2)
            l == LoadProfileOp(s.profile, s.dirs, mobile)
        IN  /\ s.profile[mob] = Json(d2)
            /\ \A k \in DOMAIN l.ret :
                  \/ k \in DOMAIN d2
                  \/ k \in FixedKeys /\ l.ret[k] = (IF k = "mobile" THEN mob ELSE "")
            /\ \A other \in Users \ {mob} : s.profile[other] = profile[other]

\* MobA's stored record has a key, with a value, that a record saved next
\* may lack, and MobB has a profile of its own
C24_Witness ==
    /\ profile[MobA].kind = "json"
    /\ "nickname" \in DOMAIN profile[MobA].doc
    /\ Get(profile[MobA].doc, "email", "") = ""
    /\ profile[MobB].kind = "json"
    /\ profile[MobB].doc # profile[MobA].doc

\* C25: in every state, load_profile(m) on a mobile without a profile file,
\* or with one that does not parse, returns the default record; whatever
\* the file held, the file holds the returned record afterwards, and a
\* second load_profile(m) returns the same record and changes nothing.
C25_LoadEnsuresExists ==
    \A mobile \in {MobA, MobAFormatted, MobB} :
        LET mob == NormMobile(mobile)
            l1 == LoadProfileOp(profile, dirs, mobile)
            l2 == LoadProfileOp(l1.profile, l1.dirs, mobile)
        IN  /\ l1.result = "ok"
            /\ profile[mob].kind # "json" =>
                  l1.ret = [mobile |-> mob, name |-> "", email |-> "", state |-> "",
                            district |-> "", address |-> ""]
            /\ l1.profile[mob] = Json(l1.ret)
            /\ mob \in l1.dirs
            /\ l2.ret = l1.ret /\ l2.profile = l1.profile /\ l2.dirs = l1.dirs

\* MobA's profile does not parse, and load_profile has created MobB's
\* profile, which holds the default record
C25_Witness ==
    /\ profile[MobA] = Corrupt
    /\ profile[MobB] = Json(ProfileDefaults(EmptyDoc, MobB))

\* the numbers N for which the upload directory of m holds a file
\* <m>_<d>_<N><ext> with one of the modelled extensions
UsedNumbers(up, m, d) ==
    {n \in 1..(MaxUploads + 2) :
        \E ext \in {<<".", "j", "p", "g">>, <<".", "m", "p", "4">>} :
            UploadPrefix(m, d) \o Dec(n) \o ext \in up[m].files}

\* C26: in every state, add_upload(m, src, d) of a source that is a file
\* names the copy <m>_<d>_<N><ext>, ext the lowered extension of the source,
\* with N = 1 when the directory holds no file of m and d and N = the largest
\* number of such a file + 1 otherwise, whatever the extensions and the files
\* of other mobiles and dates; the name is not one the directory holds, and
\* the directory afterwards holds what it held and the copy.
C26_UploadNaming ==
    \A m \in Users, src \in SourceInputs, d \in MoreDateInputs :
        src.isfile =>
            \A r \in {AddUploadOp(uploads, dirs, m, src, d)},
               used \in {UsedNumbers(uploads, m, d)} :
                \A N \in {n \in 1..(MaxUploads + 3) :
                            IF used = {} THEN n = 1
                            ELSE n - 1 \in used /\ \A y \in used : y < n} :
                    /\ r.result = "ok"
                    /\ r.filename = UploadPrefix(m, d) \o Dec(N) \o Lower(src.ext)
                    /\ r.filename \notin uploads[m].files
                    /\ r.uploads[m].files = uploads[m].files \cup {r.filename}
                    /\ \A other \in Users \ {m} : r.uploads[other] = uploads[other]

\* three uploads of MobA on one date, _2 removed, and one more upload: the
\* directory holds _1, _3 and _4, with both extensions among them
C26_Witness ==
    /\ UsedNumbers(uploads, MobA, <<"2", "0", "2", "6", "1", "1", "0", "4">>) = {1, 3, 4}
    /\ issued[MobA][<<"2", "0", "2", "6", "1", "1", "0", "4">>] = 4
    /\ \E f \in uploads[MobA].files : SplitExt(f)[2] = <<".", "m", "p", "4">>
    /\ \E f \in uploads[MobA].files : SplitExt(f)[2] = <<".", "j", "p", "g">>

\* the number add_upload(m, src, d) puts in the name, read from the directory
\* before and after: the one number the call adds
NumberNow(m, src, d) ==
    UsedNumbers(AddUploadOp(uploads, dirs, m, src, d).uploads, m, d)
        \ UsedNumbers(uploads, m, d)

\* C27 as stated: in every state the number add_upload chooses is the
\* smallest positive integer that no file of that mobile and date carries.
C27_SmallestUnused ==
    \A m \in Users, src \in SourceInputs, d \in MoreDateInputs :
        src.isfile =>
            \A used \in {UsedNumbers(uploads, m, d)}, n \in NumberNow(m, src, d) :
                n \notin used /\ \A k \in 1..(n - 1) : k \in used

\* C27 amended: the number add_upload chooses is a positive integer that no
\* file of that mobile and date carries, never below the smallest such
\* integer, and equal to it exactly when the numbers in use are 1..k
\* without a gap.
C27_UnusedAboveAll ==
    \A m \in Users, src \in SourceInputs, d \in MoreDateInputs :
        src.isfile =>
            \A used \in {UsedNumbers(uploads, m, d)}, new \in {NumberNow(m, src, d)} :
                /\ Cardinality(new) = 1
                /\ \A n \in new :
                      /\ n >= 1 /\ n \notin used
                      /\ \A k \in 1..n : (k \notin used /\ \A i \in 1..(k - 1) : i \in used)
                            => (n = k <=> \A u \in used : \A i \in 1..u : i \in used)
                      /\ \E k \in 1..n : k \notin used /\ \A i \in 1..(k - 1) : i \in used

\* _2 of MobA has been removed while _3 is there: the smallest number not
\* in use is 2 and the next upload takes 4
C27_Witness ==
    /\ UsedNumbers(uploads, MobA, <<"2", "0", "2", "6", "1", "1", "0", "4">>) = {1, 3}
    /\ issued[MobA][<<"2", "0", "2", "6", "1", "1", "0", "4">>] = 3

\* C28 as stated: in every state the number the next add_upload takes for a
\* mobile and date is greater than every number add_upload has handed out
\* for them before.
C28_MonotonicOverHistory ==
    \A m \in Users, src \in SourceInputs, d \in MoreDateInputs :
        src.isfile => \A n \in NumberNow(m, src, d) : n > issued[m][d]

\* C28 amended: in every state the number the next add_upload takes for a
\* mobile and date is greater than the number of every file of them that
\* is present, and it is a number handed out before exactly when no file
\* present carries the greatest number handed out or a greater one.
C28_MonotonicOverPresent ==
    \A m \in Users, src \in SourceInputs, d \in MoreDateInputs :
        src.isfile =>
            \A used \in {UsedNumbers(uploads, m, d)}, n \in NumberNow(m, src, d) :
                /\ \A k \in used : n > k
                /\ n <= issued[m][d]
                      <=> (issued[m][d] # 0 /\ \A k \in used : k < issued[m][d])

\* _3, the highest upload of MobA, has been removed after it was handed
\* out: the next upload takes 3 again
C28_Witness ==
    /\ UsedNumbers(uploads, MobA, <<"2", "0", "2", "6", "1", "1", "0", "4">>) = {1, 2}
    /\ issued[MobA][<<"2", "0", "2", "6", "1", "1", "0", "4">>] = 3

\* C29: in every state, add_upload of a source path that is not a file, for
\* a mobile the store accepts, fails with NotFoundError and leaves every
\* upload directory and user directory as it was (none is created), so the
\* number the next upload gets is the one it would have got; and a
\* successful add_upload removes or renames no file of the directory.
C29_MissingSource ==
    \A mobile \in {MobAFormatted, MobB}, src \in SourceInputs, d \in MoreDateInputs :
        \A r \in {AddUploadOp(uploads, dirs, mobile, src, d)} :
            IF src.isfile
            THEN r.result = "ok"
                 /\ uploads[NormMobile(mobile)].files \subseteq r.uploads[NormMobile(mobile)].files
            ELSE /\ r.result = "NotFoundError"
                 /\ r.uploads = uploads /\ r.dirs = dirs
                 /\ \A ok \in {s \in SourceInputs : s.isfile} :
                       AddUploadOp(r.uploads, r.dirs, mobile, ok, d)
                          = AddUploadOp(uploads, dirs, mobile, ok, d)

\* MobA has no upload directory and no user directory, where a failed call
\* must create none, while MobB has an upload
C29_Witness ==
    /\ ~uploads[MobA].exists /\ MobA \notin dirs
    /\ uploads[MobB].files # {}

\* C30: in every state, list_uploads_for_mobile(m) returns one row for each
\* file of m's upload directory whose name begins with "<m>_", no row twice
\* and no other row: a file removed from outside has no row and a file of
\* another user in the directory has none; without an upload directory it
\* returns no row and does not raise.
C30_ListingIsReadThrough ==
    \A mobile \in {MobAFormatted, MobB} :
        \A mob \in {NormMobile(mobile)}, l \in {ListUploadsOp(uploads, mobile)} :
            /\ l.result = "ok"
            /\ ~uploads[mob].exists => l.rows = <<>>
            /\ \A f \in uploads[mob].files :
                  Cardinality({i \in 1..Len(l.rows) : l.rows[i] = f})
                     = IF SubSeq(f, 1, MobileLen + 1) = mob \o <<"_">> THEN 1 ELSE 0
            /\ \A i \in 1..Len(l.rows) : l.rows[i] \in uploads[mob].files

\* MobA's directory holds two uploads of MobA and a file of MobB, after an
\* upload of MobA was removed from outside; MobB has no upload directory
C30_Witness ==
    /\ uploads[MobA].files \cap ForeignNames # {}
    /\ Cardinality(uploads[MobA].files) = 3
    /\ \E d \in MoreDateInputs :
          issued[MobA][d] > 0 /\ issued[MobA][d] \notin UsedNumbers(uploads, MobA, d)
    /\ ~uploads[MobB].exists

\* C31: list_uploads_for_mobile returns the rows sorted by filename, and of
\* two rows of files add_upload named the one with the earlier date comes
\* first, and on one date the one with the smaller sequence number, also
\* when a number has two digits.
C31_SortedByDateThenSequence ==
    \A l \in {ListUploadsOp(uploads, MobA)} :
        \A i \in 1..Len(l.rows), j \in 1..Len(l.rows) :
            i < j =>
                /\ StrLess(l.rows[i], l.rows[j])
                /\ \A di \in {SubSeq(l.rows[i], MobileLen + 2, MobileLen + 9)},
                      dj \in {SubSeq(l.rows[j], MobileLen + 2, MobileLen + 9)},
                      ni \in {ParseInt(SplitExt(AfterSecondUnderscore(l.rows[i]))[1])},
                      nj \in {ParseInt(SplitExt(AfterSecondUnderscore(l.rows[j]))[1])} :
                        \/ StrLess(di, dj)
                        \/ di = dj /\ ni < nj

\* C33: while the record of m has failed_attempts >= 5 and last_failed_at
\* less than 300 seconds back, login(m, pin) fails with ThrottledError for
\* every PIN, right, wrong or malformed, and writes neither the credential
\* record nor the session; last_failed_at is then the time of the last
\* wrong-PIN login, so the window is not extended by the rejected attempts.
C33_ThrottledLoginLeavesRecord ==
    \A m \in Users :
        (/\ auth[m].kind = "json"
         /\ Get(auth[m].doc, "failed_attempts", 0) >= ThrottleLimit
         /\ now - Get(auth[m].doc, "last_failed_at", 0) < ThrottleWindow)
        => /\ auth[m].doc.last_failed_at = wrongAt[m]
           /\ \A pin \in PinInputs :
                 \A r \in {LoginOp(auth, session, now, m, pin)} :
                     /\ r.result = "ThrottledError"
                     /\ r.auth = auth
                     /\ r.session = session

\* MobA is throttled, time has passed since its last wrong-PIN login, and
\* its record still accepts a PIN
C33_Witness ==
    /\ RecordClass(auth[MobA], now) = "throttled"
    /\ now > wrongAt[MobA]
    /\ PinOfRecord(auth[MobA]) # NoPin

\* C34: change_pin(m, old, new), whatever it returns, leaves
\* failed_attempts and last_failed_at of m's record as they were, present
\* or absent; while m is throttled, change_pin with the PIN the record
\* accepts and a well-formed new PIN succeeds, and login with the new PIN
\* is then rejected with ThrottledError as long as less than 300 seconds
\* have passed since last_failed_at, and succeeds from then on.
C34_ChangePinKeepsThrottle ==
    \A m \in Users, old \in PinInputs, new \in PinInputs :
        \A s \in SaltChoices(new) :
            \A r \in {ChangePinOp(auth, now, m, old, new, s)} :
                /\ auth[m].kind # "json" => r.auth = auth
                /\ auth[m].kind = "json" =>
                      /\ r.auth[m].kind = "json"
                      /\ \A k \in {"failed_attempts", "last_failed_at"} :
                            /\ k \in DOMAIN r.auth[m].doc <=> k \in DOMAIN auth[m].doc
                            /\ k \in DOMAIN auth[m].doc => r.auth[m].doc[k] = auth[m].doc[k]
                /\ (/\ RecordClass(auth[m], now) = "throttled"
                    /\ old = PinOfRecord(auth[m])
                    /\ PinOk(new))
                   => /\ r.result = "ok"
                      /\ \A t \in {now, auth[m].doc.last_failed_at + ThrottleWindow - 1,
                                   auth[m].doc.last_failed_at + ThrottleWindow} :
                            t >= now =>
                               LoginOp(r.auth, session, t, m, new).result =
                                  IF t - auth[m].doc.last_failed_at < ThrottleWindow
                                  THEN "ThrottledError" ELSE "ok"

\* MobA is throttled after a change_pin that found it throttled, and its
\* record accepts the new PIN
C34_Witness ==
    /\ RecordClass(auth[MobA], now) = "throttled"
    /\ fresh[MobA].by = "change_pin" /\ fresh[MobA].was = "throttled"
    /\ fresh[MobA].old # pinOf[MobA]
    /\ PinOfRecord(auth[MobA]) = pinOf[MobA]

\* C35: a login that fails, with ValidationError, NotFoundError,
\* CorruptedError, ThrottledError, UninitializedError or
\* InvalidCredentialsError, returns session.json as it was: the user who
\* was current, the one attempted or another, is still current, and no
\* session appears where there was none.
C35_FailedLoginKeepsSession ==
    \A mobile \in SessionInputs, pin \in PinInputs :
        \A r \in {LoginOp(auth, session, now, mobile, pin)} :
            r.result # "ok" =>
                /\ r.result \in {"ValidationError", "NotFoundError", "CorruptedError",
                                 "ThrottledError", "UninitializedError",
                                 "InvalidCredentialsError"}
                /\ r.session = session
                /\ CurrentUserOp(r.session) = CurrentUserOp(session)

\* MobA is current by a login, five wrong-PIN logins to MobA have failed
\* since, and a login to MobB fails on its record without a PIN
C35_Witness ==
    /\ CurrentUserOp(session) = MobA /\ sessBy.op = "login"
    /\ wrongRun[MobA] >= ThrottleLimit
    /\ LoginNow(MobA, Pin1).result = "ThrottledError"
    /\ LoginNow(MobB, Pin1).result = "UninitializedError"

\* C36: in every state reached by register, login, logout,
\* set_current_user, change_pin and delete_user, when current_user()
\* returns a mobile m then user_exists(m) is true: the session never names a
\* deleted or a never registered user.
C36_SessionNamesAUser ==
    \A m \in {CurrentUserOp(session)} :
        m # NoMobile => UserExistsOp(auth, m)

\* MobB is current after MobA, who had a record, was archived
C36_Witness ==
    /\ CurrentUserOp(session) = MobB
    /\ trashNow[MobA] = "full"
    /\ ~UserExistsOp(auth, MobA)

\* C37: a register(mobile, pin) that fails with ValidationError, on the
\* mobile or on the PIN, leaves what is stored as it was: the credential
\* records and the user directories are unchanged, so a delete_user of a
\* mobile that had no directory still returns false.
C37_FailedRegisterWritesNothing ==
    \A mobile \in MobileInputs, pin \in PinInputs :
        \A s \in SaltChoices(pin) :
            \A r \in {RegisterOp(auth, dirs, now, mobile, pin, s)} :
                r.result = "ValidationError" =>
                    /\ r.auth = auth
                    /\ r.dirs = dirs
                    /\ \A m \in Users \ dirs :
                          DeleteUserOp(r.auth, r.dirs, session, trashNow, profile,
                                       uploads, m, TRUE).result = "false"

\* C39: a successful register(m, p) leaves a record of m with mobile,
\* pin_salt, pin_hash, created_at and updated_at, also when the file it
\* replaces was unparsable; created_at is the time of the call when m had
\* no record, and the value stored before otherwise; a login and a
\* change_pin that write the record keep created_at.
C39_CreatedAtKept ==
    \A m \in Users, pin \in PinInputs :
        /\ \A s \in SaltChoices(pin) :
              \A r \in {RegisterOp(auth, dirs, now, m, pin, s)} :
                  r.result = "ok" =>
                      /\ r.auth[m].kind = "json"
                      /\ {"mobile", "pin_salt", "pin_hash", "created_at", "updated_at"}
                            \subseteq DOMAIN r.auth[m].doc
                      /\ r.auth[m].doc.created_at =
                            IF auth[m].kind = "json" /\ "created_at" \in DOMAIN auth[m].doc
                            THEN auth[m].doc.created_at ELSE now
        /\ (auth[m].kind = "json" /\ "created_at" \in DOMAIN auth[m].doc) =>
              /\ \A r \in {LoginOp(auth, session, now, m, pin)} :
                    /\ r.auth[m].kind = "json"
                    /\ "created_at" \in DOMAIN r.auth[m].doc
                    /\ r.auth[m].doc.created_at = auth[m].doc.created_at
              /\ \A new \in PinInputs :
                    \A s \in SaltChoices(new) :
                        \A r \in {ChangePinOp(auth, now, m, pin, new, s)} :
                            /\ r.auth[m].kind = "json"
                            /\ "created_at" \in DOMAIN r.auth[m].doc
                            /\ r.auth[m].doc.created_at = auth[m].doc.created_at

\* C32: in every state of the app, each mobile its last handler passed to
\* load_profile, save_profile, add_upload or list_uploads_for_mobile is the
\* mobile current_user() returns; the handler made no such call when there
\* is no session.
C32_CallsScopedToSession ==
    \A m \in ui.calls : CurrentUserOp(session) = m

\* C38: after media files were saved through the app, each with its
\* sidecar "<name>.json" beside it, list_uploads_for_mobile(m) has exactly
\* one row for each media file and no row for a sidecar, and the number
\* the next add_upload takes is the one it would take without the sidecars.
C38_SidecarNotListed ==
    \A m \in Users :
        \A l \in {ListUploadsOp(uploads, m)},
           media \in {{f \in uploads[m].files :
                          SplitExt(f)[2] # <<".", "j", "s", "o", "n">>}} :
            /\ \A f \in media : Cardinality({i \in 1..Len(l.rows) : l.rows[i] = f}) = 1
            /\ \A i \in 1..Len(l.rows) : l.rows[i] \in media
            /\ \A d \in DateInputs :
                  NextDigitForDay(uploads[m].files, m, d) = NextDigitForDay(media, m, d)

====
